---- MODULE Spec2Model ----
(***************************************************************************)
(* Model of the parameterized query execution core of the admin panel:     *)
(*   - DatabaseQueryExecutor (query_exec.py): syntax repair, execution,    *)
(*     transaction handling and error classification;                      *)
(*   - the connection profile, the use-case cache and the update_data      *)
(*     endpoint (api.py).                                                  *)
(* SQL text is a sequence of one-character strings, so that the regular     *)
(* expressions of the repair pass are computed character by character.     *)
(***************************************************************************)
EXTENDS Integers, Sequences, FiniteSets, TLC

VARIABLES
    \* ---- syntax repair, applied to one statement text -------------------
    nq,         \* the statement text given to _fix_common_syntax_issues
    nout,       \* the text returned by the latest pass
    nprev,      \* the text returned by the pass before the latest one
    nstage,     \* "input" | "fixed" | "refixed"
    \* ---- execute_queries ------------------------------------------------
    db,         \* the committed state of the backend
    work,       \* the state the session's open transaction sees
    snap,       \* the committed state when the latest statement started
    txn,        \* the session's open transaction, 0 when there is none
    txnSeq,     \* number of transactions the session of this call has begun
    log,        \* the calls made on the session during this call
    results,    \* the list execute_queries is building
    passes,     \* per statement, how often the repair pass has run on it
    queries,    \* the batch given to execute_queries
    inputs,     \* user_inputs
    faults,     \* per statement handled, the failure injected at the backend
    idx,        \* number of the statement the loop handles next
    pc,         \* "idle" | "running" | "returned"
    \* ---- api.py: module globals and the update_data request answered ----
    DB_TYPE, DB_HOST, DB_PORT, DB_NAME, DB_USER, DB_PASSWORD, JDBC_URL,
    use_case_cache,
    op,         \* "update_data" once that endpoint has been called
    request,    \* the body of the latest update_data request
    resp,       \* its response
    builds,     \* number of catalogs generate_use_cases has produced
    listsSinceUpdate,  \* use_cases calls begun since the latest accepted dbDetails
                       \* returned: 0, 1 (one or more); -1 when there is none
    \* ---- statement templates: extract_column_names, placeholder unification
    tin,        \* the statement or template given, with the columns it declares
    tout,       \* the value returned
    tstage,     \* "input" | "extracted" | "unified"
    \* ---- the threads that serve requests to api.py -----------------------
    lthr,       \* per use_cases thread: position in get_all_use_cases, locals
    uthr,       \* per dbDetails thread: position in receive_db_details, request
    cthr,       \* the thread calling get_db_connection: position, port_number
    epoch,      \* number of times receive_db_details has emptied the cache
    gens,       \* per epoch, catalogs generated by calls that began in it
    updates,    \* dbDetails requests begun
    calls       \* requests and calls begun

nvars == <<nq, nout, nprev, nstage>>
evars == <<db, work, snap, txn, txnSeq, log, results, passes, queries, inputs,
           faults, idx, pc>>
avars == <<DB_TYPE, DB_HOST, DB_PORT, DB_NAME, DB_USER, DB_PASSWORD, JDBC_URL,
           use_case_cache, op, request, resp, builds, listsSinceUpdate>>
tvars == <<tin, tout, tstage>>
cvars == <<lthr, uthr, cthr, epoch, gens, updates, calls>>
vars == <<nvars, evars, avars, tvars, cvars>>

----------------------------------------------------------------------------
(* Bounds *)

\* number of tokens of a generated statement text
MaxTokens == 5

\* number of statements in one execute_queries batch
MaxBatch == 2

\* catalogs generated in one behaviour
MaxBuilds == 2

\* columns a generated INSERT or UPDATE statement declares
MaxColumns == 2

\* parts of a template handed to the placeholder unification
MaxParts == 3

\* dbDetails requests in one behaviour of the API
MaxUpdates == 2

\* requests and calls begun in one behaviour of the API
MaxCalls == 4
\* worker threads of the pool that serves the endpoints: the requests served
\* at the same time
MaxWorkers == 2

----------------------------------------------------------------------------
(* Characters and text *)

Lower == {"a","b","c","d","e","f","g","h","i","j","k","l","m",
          "n","o","p","q","r","s","t","u","v","w","x","y","z"}
Upper == {"A","B","C","D","E","F","G","H","I","J","K","L","M",
          "N","O","P","Q","R","S","T","U","V","W","X","Y","Z"}
Digit == {"0","1","2","3","4","5","6","7","8","9"}

\* \w of Python's re on the characters used here
WordChars == Lower \cup Upper \cup Digit \cup {"_"}
IsWord(c) == c \in WordChars

\* \s of Python's re on the characters used here
SpaceChars == {" ", "\t", "\n", "\r", "\f"}
IsSpace(c) == c \in SpaceChars

\* s[a..b], empty when b < a
Slice(s, a, b) == IF b < a THEN <<>> ELSE SubSeq(s, a, b)

\* first index >= i whose character is not a word character (Len(s)+1 if none)
RECURSIVE WordEnd(_, _)
WordEnd(s, i) ==
    IF i > Len(s) \/ ~IsWord(s[i]) THEN i ELSE WordEnd(s, i + 1)

\* first index >= i whose character is not whitespace (Len(s)+1 if none)
RECURSIVE SpaceEnd(_, _)
SpaceEnd(s, i) ==
    IF i > Len(s) \/ ~IsSpace(s[i]) THEN i ELSE SpaceEnd(s, i + 1)

\* does text p occur in s at index i
OccursAt(s, p, i) ==
    /\ i + Len(p) - 1 <= Len(s)
    /\ \A k \in 1..Len(p) : s[i + k - 1] = p[k]

\* Python's `p in s`
Contains(s, p) == \E i \in 1..(Len(s) - Len(p) + 1) : OccursAt(s, p, i)

\* Python's s.replace(old, new): every non-overlapping occurrence, left to right
RECURSIVE ReplaceFrom(_, _, _, _)
ReplaceFrom(s, old, new, i) ==
    IF i > Len(s) THEN <<>>
    ELSE IF OccursAt(s, old, i)
         THEN new \o ReplaceFrom(s, old, new, i + Len(old))
         ELSE <<s[i]>> \o ReplaceFrom(s, old, new, i + 1)

Replace(s, old, new) == ReplaceFrom(s, old, new, 1)

----------------------------------------------------------------------------
(* Words of the statements *)

kWHERE   == <<"W","H","E","R","E">>
kId      == <<"i","d">>
kESalary == <<"e",".","s","a","l","a","r","y">>
kMSalary == <<"m",".","s","a","l","a","r","y">>
kPSalary == <<":","s","a","l","a","r","y">>
\* SELECT * FROM emp e WHERE e.id  :id
qSelectGap ==
    <<"S","E","L","E","C","T"," ","*"," ","F","R","O","M"," ","e","m","p",
      " ","e"," ","W","H","E","R","E"," ","e",".","i","d"," "," ",":","i",
      "d">>
\* SELECT * FROM emp e WHERE e.id > :id
qSelectGt ==
    <<"S","E","L","E","C","T"," ","*"," ","F","R","O","M"," ","e","m","p",
      " ","e"," ","W","H","E","R","E"," ","e",".","i","d"," ",">"," ",":",
      "i","d">>
\* SELECT * FROM emp e WHERE e.id  e.mgr  e.id
qSelectChain ==
    <<"S","E","L","E","C","T"," ","*"," ","F","R","O","M"," ","e","m","p",
      " ","e"," ","W","H","E","R","E"," ","e",".","i","d"," "," ","e",".",
      "m","g","r"," "," ","e",".","i","d">>
\* select * from emp e where e.id  e.mgr  e.id
qSelectChainLower ==
    <<"s","e","l","e","c","t"," ","*"," ","f","r","o","m"," ","e","m","p",
      " ","e"," ","w","h","e","r","e"," ","e",".","i","d"," "," ","e",".",
      "m","g","r"," "," ","e",".","i","d">>
\* SELECT * FROM emp WHERE id id
qSelectBad ==
    <<"S","E","L","E","C","T"," ","*"," ","F","R","O","M"," ","e","m","p",
      " ","W","H","E","R","E"," ","i","d"," ","i","d">>
\* SELECT * FROM gone
qSelectMissing ==
    <<"S","E","L","E","C","T"," ","*"," ","F","R","O","M"," ","g","o","n",
      "e">>
\* DELETE FROM emp WHERE id = :id
qDelete ==
    <<"D","E","L","E","T","E"," ","F","R","O","M"," ","e","m","p"," ","W",
      "H","E","R","E"," ","i","d"," ","="," ",":","i","d">>
\* UPDATE emp SET mgr = :m WHERE id = :id
qUpdate ==
    <<"U","P","D","A","T","E"," ","e","m","p"," ","S","E","T"," ","m","g",
      "r"," ","="," ",":","m"," ","W","H","E","R","E"," ","i","d"," ","=",
      " ",":","i","d">>
\* INSERT INTO emp (id, mgr) VALUES (:id, :m)
qInsert ==
    <<"I","N","S","E","R","T"," ","I","N","T","O"," ","e","m","p"," ","(",
      "i","d",","," ","m","g","r",")"," ","V","A","L","U","E","S"," ","(",
      ":","i","d",","," ",":","m",")">>
\* select
kSelect ==
    <<"s","e","l","e","c","t">>
\* delete
kDelete ==
    <<"d","e","l","e","t","e">>
\* syntax
kSyntax ==
    <<"s","y","n","t","a","x">>
\* syntax error at or near
kSyntaxError ==
    <<"s","y","n","t","a","x"," ","e","r","r","o","r"," ","a","t"," ","o",
      "r"," ","n","e","a","r">>
\* relation does not exist
kUndefinedTable ==
    <<"r","e","l","a","t","i","o","n"," ","d","o","e","s"," ","n","o","t",
      " ","e","x","i","s","t">>
\* A value is required for bind parameter
kBindRequired ==
    <<"A"," ","v","a","l","u","e"," ","i","s"," ","r","e","q","u","i","r",
      "e","d"," ","f","o","r"," ","b","i","n","d"," ","p","a","r","a","m",
      "e","t","e","r">>
\* server closed the connection
kConnLost ==
    <<"s","e","r","v","e","r"," ","c","l","o","s","e","d"," ","t","h","e",
      " ","c","o","n","n","e","c","t","i","o","n">>
\* \n[SQL:
kSqlOpen ==
    <<"\n","[","S","Q","L",":"," ">>
\* ]
kSqlClose ==
    <<"]">>
\* :
kColon ==
    <<":">>
\* ABCDEFGHIJKLMNOPQRSTUVWXYZ
kAlphaUpper ==
    <<"A","B","C","D","E","F","G","H","I","J","K","L","M","N","O","P","Q",
      "R","S","T","U","V","W","X","Y","Z">>
\* abcdefghijklmnopqrstuvwxyz
kAlphaLower ==
    <<"a","b","c","d","e","f","g","h","i","j","k","l","m","n","o","p","q",
      "r","s","t","u","v","w","x","y","z">>
kSp      == <<" ">>
kSp2     == <<" "," ">>
kGt      == <<">">>
kOpGt    == <<" ",">"," ">>
kOpGtColon == <<" ",">"," ",":">>

----------------------------------------------------------------------------
(* DatabaseQueryExecutor._fix_common_syntax_issues *)

\* end (exclusive) of a match of (\w+)\s{2,}: starting at i, 0 if none.
\* Each piece is followed by a character outside its class, so only the
\* greedy choice can match.
ColonMatchEnd(s, i) ==
    LET j == WordEnd(s, i)
        k == SpaceEnd(s, j)
    IN  IF i <= Len(s) /\ j > i /\ k - j >= 2 /\ k <= Len(s) /\ s[k] = ":"
        THEN k + 1 ELSE 0

\* re.sub(r'(\w+)\s{2,}:', r'\1 > :', s), scanning from index i.
\* Where the match fails at a word character, it fails at every later
\* character of the same word too (same word end, same whitespace), so the
\* scan resumes after the word.
RECURSIVE SubColonFrom(_, _)
SubColonFrom(s, i) ==
    IF i > Len(s) THEN <<>>
    ELSE IF ~IsWord(s[i]) THEN <<s[i]>> \o SubColonFrom(s, i + 1)
    ELSE LET e == ColonMatchEnd(s, i)
             j == WordEnd(s, i)
         IN  IF e # 0
             THEN Slice(s, i, j - 1) \o kOpGtColon \o SubColonFrom(s, e)
             ELSE Slice(s, i, j - 1) \o SubColonFrom(s, j)

SubColon(s) == SubColonFrom(s, 1)

\* end (exclusive) of \w+\.\w+ starting at i, 0 if none
DottedEnd(s, i) ==
    LET j == WordEnd(s, i)
        k == WordEnd(s, j + 1)
    IN  IF i <= Len(s) /\ j > i /\ j <= Len(s) /\ s[j] = "." /\ k > j + 1
        THEN k ELSE 0

\* re.sub(r'(\w+\.\w+)\s{2,}(\w+\.\w+)', r'\1 > \2', s), scanning from index i.
\* Where the match fails at a word character, it fails at every later
\* character of the same word too (the first \w+ ends at the same place
\* wherever in the word it starts), so the scan resumes after the word.
RECURSIVE SubDottedFrom(_, _)
SubDottedFrom(s, i) ==
    IF i > Len(s) THEN <<>>
    ELSE IF ~IsWord(s[i]) THEN <<s[i]>> \o SubDottedFrom(s, i + 1)
    ELSE LET k == DottedEnd(s, i)
             l == IF k = 0 THEN 0 ELSE SpaceEnd(s, k)
             n == IF k = 0 \/ l - k < 2 THEN 0 ELSE DottedEnd(s, l)
             j == WordEnd(s, i)
         IN  IF n # 0
             THEN Slice(s, i, k - 1) \o kOpGt \o Slice(s, l, n - 1)
                  \o SubDottedFrom(s, n)
             ELSE Slice(s, i, j - 1) \o SubDottedFrom(s, j)

SubDotted(s) == SubDottedFrom(s, 1)

kBadWhere  == kWHERE \o kSp \o kESalary \o kSp \o kMSalary
kGoodWhere == kWHERE \o kSp \o kESalary \o kOpGt \o kMSalary

\* mutant of FixCommonSyntaxIssues: the placeholder substitution is missing
FixCommonSyntaxIssues_NoColon(q) == Replace(SubDotted(q), kBadWhere, kGoodWhere)

\* the whole pass: the two substitutions, then the literal replacement
FixCommonSyntaxIssues(q) == Replace(SubDotted(SubColon(q)), kBadWhere, kGoodWhere)

----------------------------------------------------------------------------
(* Statement texts the repair pass is checked on *)

NormTokens == {kWHERE, kId, kESalary, kMSalary, kPSalary, kSp, kSp2, kGt}

RECURSIVE Flatten(_)
Flatten(ts) == IF ts = <<>> THEN <<>> ELSE Head(ts) \o Flatten(Tail(ts))

NormInputs ==
    { Flatten(ts) : ts \in UNION { [1..n -> NormTokens] : n \in 0..MaxTokens } }

NormIdle ==
    /\ nq = <<>>
    /\ nout = <<>>
    /\ nprev = <<>>
    /\ nstage = "off"

NormInit ==
    /\ nq \in NormInputs
    /\ nout = <<>>
    /\ nprev = <<>>
    /\ nstage = "input"

\* query = self._fix_common_syntax_issues(query)
Normalize ==
    /\ nstage = "input"
    /\ nout' = FixCommonSyntaxIssues(nq)
    /\ nprev' = nq
    /\ nstage' = "fixed"
    /\ UNCHANGED nq
    /\ UNCHANGED <<evars, avars, tvars, cvars>>

\* the pass applied to its own output
NormalizeAgain ==
    /\ nstage = "fixed"
    /\ nout' = FixCommonSyntaxIssues(nout)
    /\ nprev' = nout
    /\ nstage' = "refixed"
    /\ UNCHANGED nq
    /\ UNCHANGED <<evars, avars, tvars, cvars>>

----------------------------------------------------------------------------
(* Text helpers of the executor *)

ToLowerChar(c) ==
    IF c \in Upper
    THEN kAlphaLower[CHOOSE i \in 1..Len(kAlphaUpper) : kAlphaUpper[i] = c]
    ELSE c

\* str.lower()
ToLower(s) == [i \in 1..Len(s) |-> ToLowerChar(s[i])]

\* last index <= i whose character is not whitespace (0 if none)
RECURSIVE SpaceStart(_, _)
SpaceStart(s, i) ==
    IF i < 1 \/ ~IsSpace(s[i]) THEN i ELSE SpaceStart(s, i - 1)

\* str.strip()
Strip(s) == Slice(s, SpaceEnd(s, 1), SpaceStart(s, Len(s)))

\* str.startswith(p)
StartsWith(s, p) == OccursAt(s, p, 1)

\* the branch of execute_queries a statement text takes
Dispatch(query) ==
    LET t == ToLower(Strip(query))
    IN  IF StartsWith(t, kSelect) THEN "select"
        ELSE IF StartsWith(t, kDelete) THEN "delete"
        ELSE "write"

----------------------------------------------------------------------------
(* The backend: one table emp(id, mgr) with mgr a foreign key to emp.id    *)
(* (ON DELETE NO ACTION).  mgr = 0 stands for NULL.                         *)

Ids == 1..2

NoRow == [present |-> FALSE, mgr |-> 0]

Databases ==
    { d \in [Ids -> [present : BOOLEAN, mgr : {0} \cup Ids]] :
        \A r \in Ids :
            /\ ~d[r].present => d[r].mgr = 0
            /\ d[r].mgr # r
            /\ d[r].mgr # 0 => d[d[r].mgr].present }

\* rows that reference row id through mgr
Dependents(d, id) == { r \in Ids : r # id /\ d[r].present /\ d[r].mgr = id }

\* ids of a set of rows in ascending order
RECURSIVE SortedIds(_)
SortedIds(S) ==
    IF S = {} THEN <<>>
    ELSE LET lo == CHOOSE x \in S : \A y \in S : x <= y
         IN  <<lo>> \o SortedIds(S \ {lo})

\* what the backend's parser makes of a statement text
Meaning(text) ==
    IF text = qSelectGt THEN "select_gt"
    ELSE IF text = qDelete THEN "delete"
    ELSE IF text = qUpdate THEN "update"
    ELSE IF text = qInsert THEN "insert"
    ELSE IF text = qSelectMissing THEN "undefined_table"
    ELSE "syntax_error"

\* str(e) of a driver error: the driver's message followed by the statement
ErrorText(message, text) == message \o kSqlOpen \o text \o kSqlClose

Outcome(status, d, rows, rowcount, msg) ==
    [status |-> status, db |-> d, rows |-> rows, rowcount |-> rowcount,
     msg |-> msg]

\* session.execute(text(query), user_inputs) against working state d.
\* fault = "connect": the connection cannot be obtained.
BackendRun(text, params, d, fault) ==
    LET m  == Meaning(text)
        id == params.id
        mg == params.m
    IN  IF fault = "connect"
        THEN Outcome("operational", d, <<>>, 0, ErrorText(kConnLost, text))
        ELSE IF Contains(text, kColon) /\ ~params.bound
        THEN Outcome("statement", d, <<>>, 0, ErrorText(kBindRequired, text))
        ELSE IF m = "syntax_error"
        THEN Outcome("programming", d, <<>>, 0, ErrorText(kSyntaxError, text))
        ELSE IF m = "undefined_table"
        THEN Outcome("programming", d, <<>>, 0, ErrorText(kUndefinedTable, text))
        ELSE IF m = "select_gt"
        THEN Outcome("ok", d, SortedIds({r \in Ids : d[r].present /\ r > id}), 0, <<>>)
        ELSE IF m = "delete"
        THEN IF ~d[id].present THEN Outcome("ok", d, <<>>, 0, <<>>)
             ELSE IF Dependents(d, id) # {}
             THEN Outcome("integrity", d, <<>>, 0, <<>>)
             ELSE Outcome("ok", [d EXCEPT ![id] = NoRow], <<>>, 1, <<>>)
        ELSE IF m = "update"
        THEN IF ~d[id].present THEN Outcome("ok", d, <<>>, 0, <<>>)
             ELSE IF mg # 0 /\ ~d[mg].present
             THEN Outcome("integrity", d, <<>>, 0, <<>>)
             ELSE Outcome("ok", [d EXCEPT ![id].mgr = mg], <<>>, 1, <<>>)
        ELSE \* insert
             IF d[id].present \/ (mg # 0 /\ mg # id /\ ~d[mg].present)
             THEN Outcome("integrity", d, <<>>, 0, <<>>)
             ELSE Outcome("ok", [d EXCEPT ![id] = [present |-> TRUE, mgr |-> mg]],
                          <<>>, 1, <<>>)

----------------------------------------------------------------------------
(* The SQLAlchemy session of one execute_queries call.                      *)
(* s.db is the committed state, s.work the state the open transaction sees, *)
(* s.txn the open transaction (0: none), s.log the calls made on the        *)
(* session.                                                                 *)

Event(ev, stmt, t, text) == [ev |-> ev, stmt |-> stmt, txn |-> t, text |-> text]

\* autobegin: a transaction is opened by the first execute after the last one ended
SessBegin(s, i) ==
    IF s.txn # 0 THEN s
    ELSE [s EXCEPT !.txnSeq = @ + 1, !.txn = s.txnSeq + 1,
                   !.log = Append(@, Event("begin", i, s.txnSeq + 1, <<>>))]

SessExecute(s, i, text, params, fault) ==
    LET b == SessBegin(s, i)
        r == BackendRun(text, params, b.work, fault)
    IN  [s |-> [b EXCEPT !.work = r.db,
                         !.log = Append(@, Event("execute", i, b.txn, text))],
         r |-> r]

\* session.commit(); fault = "commit": the backend fails the commit
SessCommit(s, i, fault) ==
    IF fault = "commit"
    THEN [ok |-> FALSE,
          s |-> [s EXCEPT !.log = Append(@, Event("commit_failed", i, s.txn, <<>>))]]
    ELSE [ok |-> TRUE,
          s |-> [s EXCEPT !.db = s.work, !.txn = 0,
                          !.log = Append(@, Event("commit", i, s.txn, <<>>))]]

\* session.rollback()
SessRollback(s, i) ==
    [s EXCEPT !.work = s.db, !.txn = 0,
              !.log = Append(@, Event("rollback", i, s.txn, <<>>))]

\* leaving `with self.Session() as session`: close() rolls back what is open
SessClose(s, i) ==
    LET r == IF s.txn = 0 THEN s
             ELSE [s EXCEPT !.work = s.db, !.txn = 0,
                            !.log = Append(@, Event("release_rollback", i, s.txn, <<>>))]
    IN  [r EXCEPT !.log = Append(@, Event("close", i, 0, <<>>))]
----------------------------------------------------------------------------
(* DatabaseQueryExecutor.execute_queries: one statement of the batch *)

\* an entry of the returned list; the keys "results" and "error" are present
\* as has_results and has_error say
ResultEntry(qi, query, rtype, rows, text, count, ekind, emsg, fix) ==
    [use_case |-> qi.use_case,
     query |-> query,
     has_results |-> rtype # "none",
     rtype |-> rtype, rows |-> rows, text |-> text, count |-> count,
     has_error |-> ekind # "none",
     ekind |-> ekind, emsg |-> emsg,
     has_fix |-> fix # <<>>, fix |-> fix,
     user_input_columns |-> qi.user_input_columns]

AddResult(s, entry, npass) ==
    [s EXCEPT !.results = Append(@, entry), !.passes = Append(@, npass)]

\* is _suggest_fix_for_query going to run the repair pass
SuggestApplies(query, error_msg) ==
    Contains(ToLower(error_msg), kSyntax) /\ Contains(query, kWHERE)

\* _suggest_fix_for_query
SuggestFixForQuery(query, error_msg) ==
    IF SuggestApplies(query, error_msg) THEN FixCommonSyntaxIssues(query) ELSE query

----------------------------------------------------------------------------
(* The statements execute_queries is given *)

QueryInfo(uc, q, cols) == [use_case |-> uc, query |-> q, user_input_columns |-> cols]

QueryInfos ==
    { QueryInfo("find later employees", qSelectGap, <<"id">>),
      QueryInfo("compare chain", qSelectChain, <<>>),
      QueryInfo("compare chain lower", qSelectChainLower, <<>>),
      QueryInfo("compare ids", qSelectBad, <<>>),
      QueryInfo("list archive", qSelectMissing, <<>>),
      QueryInfo("remove employee", qDelete, <<"id">>),
      QueryInfo("assign manager", qUpdate, <<"m", "id">>),
      QueryInfo("add employee", qInsert, <<"id", "m">>) }

\* the repair pass, the dispatch and the suggestion, evaluated once per
\* statement text
FixTable == [q \in {qi.query : qi \in QueryInfos} |-> FixCommonSyntaxIssues(q)]

DispatchTable == [q \in {FixTable[qi.query] : qi \in QueryInfos} |-> Dispatch(q)]

\* the texts a ProgrammingError of the backend can carry for a statement
ProgrammingErrors(q) == {ErrorText(kSyntaxError, q), ErrorText(kUndefinedTable, q)}

SuggestTable ==
    [x \in UNION { {<<FixTable[qi.query], e>> : e \in ProgrammingErrors(FixTable[qi.query])} :
                     qi \in QueryInfos } |->
        [applies |-> SuggestApplies(x[1], x[2]),
         fixed |-> SuggestFixForQuery(x[1], x[2])]]

\* the repair pass applied to its own output, evaluated once per statement text
RefixTable ==
    [q \in {FixTable[qi.query] : qi \in QueryInfos} |-> FixCommonSyntaxIssues(q)]

\* mutant of SelectDone: the empty row list is returned as it is
SelectDone_EmptyList(s, i, qi, query, r) ==
    AddResult(s, ResultEntry(qi, query, "list", r.rows, "", 0, "none", <<>>, <<>>), 1)

\* the SELECT branch after a successful execute: no commit
SelectDone(s, i, qi, query, r) ==
    AddResult(s,
        IF r.rows # <<>>
        THEN ResultEntry(qi, query, "list", r.rows, "", 0, "none", <<>>, <<>>)
        ELSE ResultEntry(qi, query, "str", <<>>, "No records found.", 0,
                         "none", <<>>, <<>>),
        1)

\* the DELETE branch after execute and commit
DeleteDone(s, i, qi, query, r) ==
    AddResult(s, ResultEntry(qi, query, "str", <<>>,
                             "record(s) deleted successfully.", r.rowcount,
                             "none", <<>>, <<>>), 1)

\* the INSERT / UPDATE branch after execute and commit
WriteDone(s, i, qi, query, r) ==
    AddResult(s, ResultEntry(qi, query, "str", <<>>,
                             "Query executed successfully. row(s) affected.",
                             r.rowcount, "none", <<>>, <<>>), 1)

\* mutant of OnProgrammingError: the repaired statement is executed again
OnProgrammingError_Retry(s, i, qi, query, msg) ==
    LET fixed_query == SuggestTable[<<query, msg>>].fixed
        rb == SessRollback(s, i)
        again == SessBegin(rb, i)
    IN  AddResult([again EXCEPT !.log = Append(@, Event("execute", i, again.txn, fixed_query))],
            ResultEntry(qi, query, "none", <<>>, "", 0, "programming", msg,
                        IF fixed_query # query THEN fixed_query ELSE <<>>),
            IF SuggestTable[<<query, msg>>].applies THEN 2 ELSE 1)

\* except ProgrammingError
OnProgrammingError(s, i, qi, query, msg) ==
    LET fixed_query == SuggestTable[<<query, msg>>].fixed
    IN  AddResult(SessRollback(s, i),
            ResultEntry(qi, query, "none", <<>>, "", 0, "programming", msg,
                        IF fixed_query # query THEN fixed_query ELSE <<>>),
            IF SuggestTable[<<query, msg>>].applies THEN 2 ELSE 1)

\* Foreign key constraint error: Cannot delete or update this r
\* ecord as it is referenced elsewhere.
kForeignKeyError ==
    <<"F","o","r","e","i","g","n"," ","k","e","y"," ","c","o","n","s","t",
      "r","a","i","n","t"," ","e","r","r","o","r",":"," ","C","a","n","n",
      "o","t"," ","d","e","l","e","t","e"," ","o","r"," ","u","p","d","a",
      "t","e"," ","t","h","i","s"," ","r","e","c","o","r","d"," ","a","s",
      " ","i","t"," ","i","s"," ","r","e","f","e","r","e","n","c","e","d",
      " ","e","l","s","e","w","h","e","r","e",".">>

\* mutant of OnIntegrityError: the rollback is left out
OnIntegrityError_NoRollback(s, i, qi, query, msg) ==
    AddResult(s,
        ResultEntry(qi, query, "none", <<>>, "", 0, "integrity",
                    kForeignKeyError, <<>>), 1)

\* mutant of OnIntegrityError: the driver's text is reported, as the other
\* except clauses do
OnIntegrityError_DriverText(s, i, qi, query, msg) ==
    AddResult(SessRollback(s, i),
        ResultEntry(qi, query, "none", <<>>, "", 0, "integrity", msg, <<>>), 1)

\* except IntegrityError
OnIntegrityError(s, i, qi, query, msg) ==
    AddResult(SessRollback(s, i),
        ResultEntry(qi, query, "none", <<>>, "", 0, "integrity",
                    kForeignKeyError, <<>>), 1)

\* Database operation error: 
kOperationError ==
    <<"D","a","t","a","b","a","s","e"," ","o","p","e","r","a","t","i","o","n",
      " ","e","r","r","o","r",":"," ">>
\* Unexpected error: 
kUnexpectedError ==
    <<"U","n","e","x","p","e","c","t","e","d"," ","e","r","r","o","r",":"," ">>

\* mutant of OnOperationalError: the rollback is left out
OnOperationalError_NoRollback(s, i, qi, query, msg) ==
    AddResult(s,
        ResultEntry(qi, query, "none", <<>>, "", 0, "operational",
                    kOperationError \o msg, <<>>), 1)

\* except OperationalError: rollback, then the entry with
\* f"Database operation error: {str(e)}"
OnOperationalError(s, i, qi, query, msg) ==
    AddResult(SessRollback(s, i),
        ResultEntry(qi, query, "none", <<>>, "", 0, "operational",
                    kOperationError \o msg, <<>>), 1)

\* mutant of OnUnexpectedError: the entry is not appended
OnUnexpectedError_NoEntry(s, i, qi, query, msg) == SessRollback(s, i)

\* except Exception: rollback, then the entry with f"Unexpected error: {str(e)}"
OnUnexpectedError(s, i, qi, query, msg) ==
    AddResult(SessRollback(s, i),
        ResultEntry(qi, query, "none", <<>>, "", 0, "unexpected",
                    kUnexpectedError \o msg, <<>>), 1)

\* the except clause an execute outcome is caught by
OnError(s, i, qi, query, status, msg) ==
    IF status = "programming" THEN OnProgrammingError(s, i, qi, query, msg)
    ELSE IF status = "integrity" THEN OnIntegrityError(s, i, qi, query, msg)
    ELSE IF status = "operational" THEN OnOperationalError(s, i, qi, query, msg)
    ELSE OnUnexpectedError(s, i, qi, query, msg)

\* the DELETE and the INSERT / UPDATE branches: execute, commit, report
CommitAndReport(s, i, qi, query, r, fault) ==
    LET c == SessCommit(s, i, fault)
    IN  IF ~c.ok
        THEN OnError(c.s, i, qi, query, "operational", ErrorText(kConnLost, query))
        ELSE IF DispatchTable[query] = "delete"
        THEN DeleteDone(c.s, i, qi, query, r)
        ELSE WriteDone(c.s, i, qi, query, r)

\* the body of the for loop for statement number i
ExecOne(s, i, qi, user_inputs, fault) ==
    LET query == FixTable[qi.query]
        x     == SessExecute(s, i, query, user_inputs, fault)
    IN  IF x.r.status # "ok"
        THEN OnError(x.s, i, qi, query, x.r.status, x.r.msg)
        ELSE IF DispatchTable[query] = "select"
        THEN SelectDone(x.s, i, qi, query, x.r)
        ELSE CommitAndReport(x.s, i, qi, query, x.r, fault)

----------------------------------------------------------------------------
(* Inputs of execute_queries *)

Batches == UNION { [1..n -> QueryInfos] : n \in 0..MaxBatch }

UserInputs ==
    { u \in [bound : BOOLEAN, id : Ids, m : {0} \cup Ids] :
        /\ u.m # u.id
        /\ ~u.bound => (u.id = 1 /\ u.m = 0) }

Faults == {"none", "connect", "commit"}

Session == [db |-> db, work |-> work, txn |-> txn, txnSeq |-> txnSeq,
            log |-> log, results |-> results, passes |-> passes]

SetSession(s) ==
    /\ db' = s.db
    /\ work' = s.work
    /\ txn' = s.txn
    /\ txnSeq' = s.txnSeq
    /\ log' = s.log
    /\ results' = s.results
    /\ passes' = s.passes

ExecInit ==
    /\ db \in Databases
    /\ work = db
    /\ snap = db
    /\ txn = 0
    /\ txnSeq = 0
    /\ log = <<>>
    /\ results = <<>>
    /\ passes = <<>>
    /\ queries = <<>>
    /\ inputs = [bound |-> FALSE, id |-> 1, m |-> 0]
    /\ faults = <<>>
    /\ idx = 1
    /\ pc = "idle"

\* does statement i get as far as session.commit()
ReachesCommit(s, i, qi, user_inputs) ==
    LET query == FixTable[qi.query]
    IN  /\ DispatchTable[query] # "select"
        /\ SessExecute(s, i, query, user_inputs, "none").r.status = "ok"

\* execute_queries(queries, user_inputs): `with self.Session() as session`
ExecuteQueriesBegin(qs, ui) ==
    /\ pc = "idle"
    /\ queries' = qs
    /\ inputs' = ui
    /\ faults' = <<>>
    /\ idx' = 1
    /\ pc' = "running"
    /\ snap' = db
    /\ SetSession([db |-> db, work |-> db, txn |-> 0, txnSeq |-> 0,
                   log |-> <<>>, results |-> <<>>, passes |-> <<>>])
    /\ UNCHANGED <<nvars, avars, tvars, cvars>>

\* one iteration of `for query_info in queries`
ExecStatement(fault) ==
    /\ pc = "running"
    /\ idx <= Len(queries)
    /\ fault = "commit" => ReachesCommit(Session, idx, queries[idx], inputs)
    /\ SetSession(ExecOne(Session, idx, queries[idx], inputs, fault))
    /\ snap' = db
    /\ faults' = Append(faults, fault)
    /\ idx' = idx + 1
    /\ UNCHANGED <<queries, inputs, pc>>
    /\ UNCHANGED <<nvars, avars, tvars, cvars>>

\* the end of the with block and `return results`
ExecuteQueriesReturn ==
    /\ pc = "running"
    /\ idx > Len(queries)
    /\ SetSession(SessClose(Session, idx))
    /\ pc' = "returned"
    /\ UNCHANGED <<queries, inputs, faults, idx, snap>>
    /\ UNCHANGED <<nvars, avars, tvars, cvars>>

\* the caller has taken the list; the executor is ready for the next call
NextCall ==
    /\ pc = "returned"
    /\ pc' = "idle"
    /\ queries' = <<>>
    /\ inputs' = [bound |-> FALSE, id |-> 1, m |-> 0]
    /\ faults' = <<>>
    /\ idx' = 1
    /\ snap' = db
    /\ SetSession([db |-> db, work |-> db, txn |-> 0, txnSeq |-> 0,
                   log |-> <<>>, results |-> <<>>, passes |-> <<>>])
    /\ UNCHANGED <<nvars, avars, tvars, cvars>>

ExecIdle ==
    /\ db = [r \in Ids |-> NoRow]
    /\ work = db
    /\ snap = db
    /\ txn = 0
    /\ txnSeq = 0
    /\ log = <<>>
    /\ results = <<>>
    /\ passes = <<>>
    /\ queries = <<>>
    /\ inputs = [bound |-> FALSE, id |-> 1, m |-> 0]
    /\ faults = <<>>
    /\ idx = 1
    /\ pc = "off"

----------------------------------------------------------------------------
(* Statement templates: column extraction and placeholder unification *)

\* INSERT INTO
kInsertInto ==
    <<"I","N","S","E","R","T"," ","I","N","T","O">>
\* insert into
kInsertIntoLower ==
    <<"i","n","s","e","r","t"," ","i","n","t","o">>
\* UPDATE
kUpdate ==
    <<"U","P","D","A","T","E">>
\* SET
kSet ==
    <<"S","E","T">>
\* " VALUES ("
kValuesOpen ==
    <<" ","V","A","L","U","E","S"," ","(">>
\* " WHERE id = :id"
kWhereId ==
    <<" ","W","H","E","R","E"," ","i","d"," ","="," ",":","i","d">>
kOpenParen  == <<"(">>
kCloseParen == <<")">>
kComma      == <<",">>
kCommaSp    == <<","," ">>
kSpComma    == <<" ",",">>
kEquals     == <<"=">>
kAssign     == <<" ","="," ",":">>
kLt         == <<"<">>
kEmpty      == <<>>
\* the characters the class [^WHERE] leaves out under re.IGNORECASE
kWhereClass == {"W","H","E","R","w","h","e","r"}

tEmployees   == <<"e","m","p","l","o","y","e","e","s">>
tHrEmployees == <<"h","r",".","e","m","p","l","o","y","e","e","s">>
tColName     == <<"n","a","m","e">>
tColSalary   == <<"s","a","l","a","r","y">>
tColId       == <<"i","d">>
tMax         == <<"<","m","a","x",">">>
tMin         == <<"<","m","i","n",">">>
tOpLt        == <<" ","<"," ">>
tOpGe        == <<" ",">","="," ">>
tOpNe        == <<" ","<",">"," ">>
tOpEq        == <<" ","="," ">>
tAnd         == <<" ","A","N","D"," ">>

\* does text p occur in s at index i, letter case ignored (re.IGNORECASE)
OccursAtNoCase(s, p, i) ==
    /\ i + Len(p) - 1 <= Len(s)
    /\ \A k \in 1..Len(p) : ToLowerChar(s[i + k - 1]) = ToLowerChar(p[k])

\* first index >= i holding a character of set cs (Len(s)+1 if none)
RECURSIVE ClassEnd(_, _, _)
ClassEnd(s, cs, i) ==
    IF i > Len(s) \/ s[i] \in cs THEN i ELSE ClassEnd(s, cs, i + 1)

\* the group of  INSERT INTO\s+\w+\s*\(([^)]+)\)  matched at index p,
\* as a one-element tuple, or <<>> when the pattern does not match there
InsertGroupAt(s, p) ==
    LET a == p + Len(kInsertInto)
        b == SpaceEnd(s, a)
        c == WordEnd(s, b)
        d == SpaceEnd(s, c)
        e == ClassEnd(s, {")"}, d + 1)
    IN  IF /\ OccursAtNoCase(s, kInsertInto, p)
           /\ b > a
           /\ c > b
           /\ d <= Len(s)
           /\ s[d] = "("
           /\ e <= Len(s)
           /\ e > d + 1
        THEN <<Slice(s, d + 1, e - 1)>>
        ELSE <<>>

\* the group of  UPDATE\s+\w+\s+SET\s+([^WHERE]+)  matched at index p
UpdateGroupAt(s, p) ==
    LET a == p + Len(kUpdate)
        b == SpaceEnd(s, a)
        c == WordEnd(s, b)
        d == SpaceEnd(s, c)
        f == d + Len(kSet)
        g == SpaceEnd(s, f)
        h == ClassEnd(s, kWhereClass, g)
    IN  IF /\ OccursAtNoCase(s, kUpdate, p)
           /\ b > a
           /\ c > b
           /\ d > c
           /\ OccursAtNoCase(s, kSet, d)
           /\ g > f
        THEN IF h > g THEN <<Slice(s, g, h - 1)>>
             \* \s+ gives one whitespace character back to the class
             ELSE IF g > f + 1 THEN <<Slice(s, g - 1, g - 1)>>
             ELSE <<>>
        ELSE <<>>

\* re.search: the match at the leftmost index that has one
InsertSearch(s) ==
    LET P == { p \in 1..Len(s) : InsertGroupAt(s, p) # <<>> }
    IN  IF P = {} THEN <<>>
        ELSE InsertGroupAt(s, CHOOSE p \in P : \A o \in P : p <= o)

UpdateSearch(s) ==
    LET P == { p \in 1..Len(s) : UpdateGroupAt(s, p) # <<>> }
    IN  IF P = {} THEN <<>>
        ELSE UpdateGroupAt(s, CHOOSE p \in P : \A o \in P : p <= o)

\* str.split(sep) for a one-character separator
RECURSIVE SplitFrom(_, _, _)
SplitFrom(s, sep, i) ==
    LET j == ClassEnd(s, {sep}, i)
    IN  IF j > Len(s) THEN <<Slice(s, i, Len(s))>>
        ELSE <<Slice(s, i, j - 1)>> \o SplitFrom(s, sep, j + 1)

Split(s, sep) == SplitFrom(s, sep, 1)

\* api.py extract_column_names
ExtractColumnNames(query) ==
    LET insert_match == InsertSearch(query)
        update_match == UpdateSearch(query)
    IN  IF insert_match # <<>>
        THEN LET cols == Split(insert_match[1], ",")
             IN  [i \in 1..Len(cols) |-> Strip(cols[i])]
        ELSE IF update_match # <<>>
        THEN LET cols == Split(update_match[1], ",")
             IN  [i \in 1..Len(cols) |-> Strip(Split(cols[i], "=")[1])]
        ELSE <<>>

\* query_generator.py generate_query: query.replace("<", ":").replace(">", "")
UnifyPlaceholders(query) ==
    Replace(Replace(query, kLt, kColon), kGt, kEmpty)

\* s1 sep s2 sep ... sn
RECURSIVE Join(_, _)
Join(ss, sep) ==
    IF ss = <<>> THEN <<>>
    ELSE IF Len(ss) = 1 THEN ss[1]
    ELSE ss[1] \o sep \o Join(Tail(ss), sep)

ColumnNames == {tColName, tColSalary, tColId}
TableNames == {tEmployees, tHrEmployees}

\* the column lists a statement declares
ColumnLists == UNION { [1..n -> ColumnNames] : n \in 1..MaxColumns }

\* a := :a
Assignments(cols) == Join([i \in 1..Len(cols) |-> cols[i] \o kAssign \o cols[i]], kCommaSp)

\* :a, :b
Placeholders(cols) == Join([i \in 1..Len(cols) |-> kColon \o cols[i]], kCommaSp)

InsertStatements ==
    { [kind |-> "insert",
       cols |-> cols,
       text |-> kw \o kSp \o t \o gap \o kOpenParen \o Join(cols, sep) \o kCloseParen
                \o kValuesOpen \o Placeholders(cols) \o kCloseParen] :
        kw \in {kInsertInto, kInsertIntoLower}, t \in TableNames,
        gap \in {kEmpty, kSp}, sep \in {kComma, kCommaSp, kSpComma},
        cols \in ColumnLists }

UpdateStatements ==
    { [kind |-> "update",
       cols |-> cols,
       text |-> kUpdate \o kSp \o t \o kSp \o kSet \o kSp \o Assignments(cols) \o tail] :
        t \in TableNames, tail \in {kEmpty, kWhereId}, cols \in ColumnLists }

TemplateParts == {tColSalary, tMax, tMin, tOpLt, tOpGe, tOpNe, tOpEq, tAnd}

Templates ==
    { [kind |-> "template", cols |-> <<>>, text |-> Flatten(ps)] :
        ps \in UNION { [1..n -> TemplateParts] : n \in 1..MaxParts } }

TemplIdle ==
    /\ tin = [kind |-> "none", cols |-> <<>>, text |-> <<>>]
    /\ tout = <<>>
    /\ tstage = "off"

TemplInit ==
    /\ tin \in InsertStatements \cup UpdateStatements \cup Templates
    /\ tout = <<>>
    /\ tstage = "input"

\* extract_column_names(request.query)
ExtractColumns ==
    /\ tstage = "input"
    /\ tin.kind \in {"insert", "update"}
    /\ tout' = ExtractColumnNames(tin.text)
    /\ tstage' = "extracted"
    /\ UNCHANGED tin
    /\ UNCHANGED <<nvars, evars, avars, cvars>>

\* the unification of generate_query on the text the model returned
Unify ==
    /\ tstage = "input"
    /\ tin.kind = "template"
    /\ tout' = UnifyPlaceholders(tin.text)
    /\ tstage' = "unified"
    /\ UNCHANGED tin
    /\ UNCHANGED <<nvars, evars, avars, cvars>>

----------------------------------------------------------------------------
(* Texts of the connection profile *)

\* mysql
kMysql ==
    <<"m","y","s","q","l">>
\* postgresql
kPostgresql ==
    <<"p","o","s","t","g","r","e","s","q","l">>
\* postgres
kPostgres ==
    <<"p","o","s","t","g","r","e","s">>
\* 3306
kPort3306 ==
    <<"3","3","0","6">>
\* 5432
kPort5432 ==
    <<"5","4","3","2">>
\* mysql+pymysql://
kMysqlScheme ==
    <<"m","y","s","q","l","+","p","y","m","y","s","q","l",":","/","/">>
\* postgresql://
kPostgresScheme ==
    <<"p","o","s","t","g","r","e","s","q","l",":","/","/">>
\* @
kAt ==
    <<"@">>
\* /
kSlash ==
    <<"/">>
\* +
kPlus ==
    <<"+">>
\* 0123456789ABCDEF
kHexDigits ==
    <<"0","1","2","3","4","5","6","7","8","9","A","B","C","D","E","F">>
\*  !"#$%&\'()*+,-./0123456789:;<=>?@
kAscii ==
    <<" ","!","\"","#","$","%","&","'","(",")","*","+",",","-",".","/","0",
      "1","2","3","4","5","6","7","8","9",":",";","<","=",">","?","@">>
\* MySQL
tMySQL ==
    <<"M","y","S","Q","L">>
\* postgres
tPostgres ==
    <<"p","o","s","t","g","r","e","s">>
\* sqlite
tSqlite ==
    <<"s","q","l","i","t","e">>
\* db1
tHost1 ==
    <<"d","b","1">>
\* db2
tHost2 ==
    <<"d","b","2">>
\* 5433
tPort5433 ==
    <<"5","4","3","3">>
\* 80a
tPort80a ==
    <<"8","0","a">>
\* hr
tName ==
    <<"h","r">>
\* crm
tName2 ==
    <<"c","r","m">>
\* admin
tUser ==
    <<"a","d","m","i","n">>
\* p@s w
tPassword ==
    <<"p","@","s"," ","w">>

----------------------------------------------------------------------------
(* api.py: the connection profile held in module globals *)

\* a module global: unbound until the first assignment
Unset == [set |-> FALSE, v |-> <<>>]
Bound(v) == [set |-> TRUE, v |-> v]

\* use_case_cache = None
NoCatalog == [set |-> FALSE, url |-> <<>>, type |-> <<>>, build |-> 0]

\* the position of c in the ASCII table
AsciiCode(c) == 31 + (CHOOSE i \in 1..Len(kAscii) : kAscii[i] = c)

\* urllib.parse.quote_plus on one character
QuotePlusChar(c) ==
    IF IsWord(c) \/ c \in {".", "-", "~"} THEN <<c>>
    ELSE IF c = " " THEN kPlus
    ELSE <<"%", kHexDigits[(AsciiCode(c) \div 16) + 1],
                kHexDigits[(AsciiCode(c) % 16) + 1]>>

\* urllib.parse.quote_plus
RECURSIVE QuotePlus(_)
QuotePlus(s) == IF s = <<>> THEN <<>> ELSE QuotePlusChar(Head(s)) \o QuotePlus(Tail(s))

\* str.isdigit()
IsDigits(s) == s # <<>> /\ \A i \in 1..Len(s) : s[i] \in Digit

\* the texts the requests of the model carry, with str.lower() and quote_plus
\* computed once per text
DbTypes == {tMySQL, tPostgres, tSqlite}
Passwords == {tPassword}
LowerTable == [t \in DbTypes |-> ToLower(t)]
QuotePlusTable == [p \in Passwords |-> QuotePlus(p)]

\* f"{scheme}{DB_USER}:{quote_plus(DB_PASSWORD)}@{DB_HOST}:{DB_PORT}/{DB_NAME}"
MakeUrl(scheme, g) ==
    scheme \o g.DB_USER.v \o kColon \o QuotePlusTable[g.DB_PASSWORD.v] \o kAt
           \o g.DB_HOST.v \o kColon \o g.DB_PORT.v \o kSlash \o g.DB_NAME.v

\* the body answered to update_data; has_columns says whether it has the
\* key "user_input_columns", which only the success body has
Reply(status, detail) ==
    [status |-> status, detail |-> detail,
     has_columns |-> FALSE, user_input_columns |-> <<>>]

NoReply == Reply("none", "")

\* `not details.DB_PORT`: None or the empty string
PortMissing(details) == ~details.DB_PORT.set \/ details.DB_PORT.v = <<>>

\* the default port of receive_db_details
DefaultPort(db_type) == IF db_type = kMysql THEN kPort3306 ELSE kPort5432

\* FinanceQueryGenerator(schema, api_key, db_type, model).generate_use_cases():
\* the catalog the generator produces from the schema behind the URL and the
\* backend kind it is given; n numbers the catalogs produced so far
GenerateUseCases(url, db_type, n) ==
    [set |-> TRUE, url |-> url, type |-> db_type, build |-> n]

\* 0123456789
kDigits ==
    <<"0","1","2","3","4","5","6","7","8","9">>

\* int(s) for a text of decimal digits
RECURSIVE ParseInt(_)
ParseInt(s) ==
    IF s = <<>> THEN 0
    ELSE 10 * ParseInt(SubSeq(s, 1, Len(s) - 1))
         + (CHOOSE d \in 0..9 : kDigits[d + 1] = s[Len(s)])

\* get_db_connection, line 45: the port as a number
PortNumber(db_port, db_type) ==
    IF db_port # <<>> THEN ParseInt(db_port)
    ELSE IF ToLower(db_type) = kMysql THEN 3306 ELSE 5432

\* what get_db_connection returns or raises
NoConnection == [status |-> "none", driver |-> "none", port |-> 0]

\* get_db_connection, lines 48-53 and 55-61: the connect call of the driver
\* with port_number; outcome says whether connect returns or raises (66)
Connect(driver, port_number, outcome) ==
    IF outcome = "raises"
    THEN [NoConnection EXCEPT !.status = "http500"]
    ELSE [status |-> "connected", driver |-> driver, port |-> port_number]

\* DatabaseQueryExecutor defines execute_queries, _fix_common_syntax_issues
\* and _suggest_fix_for_query; it has no method execute_query
ExecutorHasExecuteQuery == FALSE

\* zip(column_names, params) as the list of its (column, value) pairs
Zip(cols, params) ==
    [i \in 1..(IF Len(cols) < Len(params) THEN Len(cols) ELSE Len(params)) |->
        <<cols[i], params[i]>>]

\* update_data: the executor has no execute_query, so the call made on it
\* raises AttributeError, which the handler turns into HTTP 500 with the
\* detail alone; only the body built after the call has user_input_columns
UpdateData(g, req) ==
    LET column_names == ExtractColumnNames(req.query)
    IN  IF ~g.JDBC_URL.set
        THEN Reply("http500", "Query execution failed: name 'JDBC_URL' is not defined")
        ELSE IF ~ExecutorHasExecuteQuery
        THEN Reply("http500",
                   "Query execution failed: 'DatabaseQueryExecutor' object has no attribute 'execute_query'")
        ELSE [Reply("success", "") EXCEPT
                 !.has_columns = TRUE,
                 !.user_input_columns = Zip(column_names, req.params)]

----------------------------------------------------------------------------
(* Requests to the API *)

Optional(v) == [set |-> TRUE, v |-> v]
None == [set |-> FALSE, v |-> <<>>]

DbDetails ==
    [DB_TYPE : DbTypes,
     DB_HOST : {tHost1, tHost2},
     DB_PORT : {None, Optional(tPort5433), Optional(tPort80a)},
     DB_NAME : {tName, tName2},
     DB_USER : {tUser},
     DB_PASSWORD : Passwords]

UpdateRequests ==
    { [use_case |-> "add employee", query |-> qInsert, params |-> <<1, 0>>],
      [use_case |-> "set manager", query |-> qUpdate, params |-> <<2, 1>>] }

Globals ==
    [DB_TYPE |-> DB_TYPE, DB_HOST |-> DB_HOST, DB_PORT |-> DB_PORT,
     DB_NAME |-> DB_NAME, DB_USER |-> DB_USER, DB_PASSWORD |-> DB_PASSWORD,
     JDBC_URL |-> JDBC_URL, use_case_cache |-> use_case_cache]

\* the module as imported: only use_case_cache is assigned
ApiInit ==
    /\ DB_TYPE = Unset
    /\ DB_HOST = Unset
    /\ DB_PORT = Unset
    /\ DB_NAME = Unset
    /\ DB_USER = Unset
    /\ DB_PASSWORD = Unset
    /\ JDBC_URL = Unset
    /\ use_case_cache = NoCatalog
    /\ op = "none"
    /\ request = <<>>
    /\ resp = NoReply
    /\ builds = 0
    /\ listsSinceUpdate = -1

\* no request is served
ApiIdle == ApiInit

\* the backend behind the API, with no execute_queries call in progress
ExecBehindApi ==
    /\ db \in Databases
    /\ work = db
    /\ snap = db
    /\ txn = 0
    /\ txnSeq = 0
    /\ log = <<>>
    /\ results = <<>>
    /\ passes = <<>>
    /\ queries = <<>>
    /\ inputs = [bound |-> FALSE, id |-> 1, m |-> 0]
    /\ faults = <<>>
    /\ idx = 1
    /\ pc = "off"

----------------------------------------------------------------------------
(* The endpoints of api.py.  They are plain functions, which the server     *)
(* runs on worker threads: a step is one statement of a handler, and the    *)
(* statements of requests served at the same time interleave.               *)

\* the worker threads that serve GET /api/v1/use_cases, in the order in
\* which a request is handed to a free one
ListOrder == <<"list1", "list2">>
ListThreads == { ListOrder[i] : i \in 1..Len(ListOrder) }

\* the worker threads that serve POST /api/v1/dbDetails, in the same order
UpdateOrder == <<"upd1", "upd2">>
UpdateThreads == { UpdateOrder[i] : i \in 1..Len(UpdateOrder) }

\* the dbDetails requests made
ConcDetails ==
    { d \in DbDetails :
        \/ /\ d.DB_HOST = tHost1
           /\ d.DB_NAME = tName
           /\ \/ d.DB_PORT = None
              \/ d.DB_PORT = Optional(tPort80a) /\ d.DB_TYPE = tMySQL
              \/ d.DB_PORT = Optional(tPort5433) /\ d.DB_TYPE = tPostgres
        \/ /\ d.DB_HOST = tHost2
           /\ d.DB_NAME = tName2
           /\ d.DB_PORT = None
           /\ d.DB_TYPE = tMySQL }

\* the connection profile and the cached catalog
Profile == <<DB_TYPE, DB_HOST, DB_PORT, DB_NAME, DB_USER, DB_PASSWORD, JDBC_URL,
             use_case_cache>>

\* a use_cases thread: its position, the locals of get_all_use_cases, the
\* epoch it began in, what it returned; hit: it found a catalog cached;
\* next: it is the first call begun since an accepted dbDetails returned;
\* quiet: no dbDetails request has been in progress since it began;
\* generated: it has called generate_use_cases
IdleList ==
    [pc |-> "idle", url |-> <<>>, type |-> <<>>, cat |-> NoCatalog,
     epoch |-> 0, result |-> "none", hit |-> FALSE, next |-> FALSE,
     quiet |-> FALSE, generated |-> FALSE]

\* what a dbDetails thread has read of the globals for the URL it formats
NoRead ==
    [DB_USER |-> Unset, DB_PASSWORD |-> Unset, DB_HOST |-> Unset,
     DB_PORT |-> Unset, DB_NAME |-> Unset]

\* a dbDetails thread: its position, the request, the reply, the profile
\* and the number of catalogs generated when the request began; port: the
\* default port computed and not yet assigned; scheme, read: the scheme chosen
\* and the globals read so far for the URL being formatted; ret: the place of
\* its return among the returns of dbDetails requests
IdleUpdate ==
    [pc |-> "idle", details |-> <<>>, result |-> "none", url |-> <<>>,
     port |-> <<>>, scheme |-> <<>>, read |-> NoRead, before |-> <<>>,
     base |-> 0, ret |-> 0]

\* the thread that calls get_db_connection
IdleConn == [pc |-> "idle", port |-> 0, quiet |-> FALSE, conn |-> NoConnection]

ConcIdle ==
    /\ lthr = [t \in ListThreads |-> IdleList]
    /\ uthr = [u \in UpdateThreads |-> IdleUpdate]
    /\ cthr = IdleConn
    /\ epoch = 0
    /\ gens = [e \in 0..MaxUpdates |-> 0]
    /\ updates = 0
    /\ calls = 0

ConcInit == ConcIdle

\* thread t of thr, the first in order that serves no request, takes the
\* next one: the workers are interchangeable, which one serves a request
\* makes no difference to the program
FirstFree(thr, order, t) ==
    \E i \in 1..Len(order) :
        /\ order[i] = t
        /\ thr[t].pc \in {"idle", "done"}
        /\ \A j \in 1..(i - 1) : thr[order[j]].pc \notin {"idle", "done"}

\* the requests being served: each one holds a worker of the pool
Serving ==
    Cardinality({ t \in ListThreads : lthr[t].pc \notin {"idle", "done"} })
    + Cardinality({ u \in UpdateThreads : uthr[u].pc \notin {"idle", "done"} })

\* a worker of the pool is free to take a request
WorkerFree == Serving < MaxWorkers

\* no dbDetails request is being served
NoUpdateInProgress == \A u \in UpdateThreads : uthr[u].pc \in {"idle", "done"}

\* the dbDetails threads that have returned
Returned == { u \in UpdateThreads : uthr[u].pc = "done" }

\* the place the next return of a dbDetails request takes
NextRet(u) ==
    1 + (CHOOSE n \in 0..MaxUpdates :
            /\ \A v \in UpdateThreads \ {u} : uthr[v].ret <= n
            /\ n = 0 \/ \E v \in UpdateThreads \ {u} : uthr[v].ret = n)

\* the dbDetails request that returned last has been accepted, by thread u
LatestAccepted(u) ==
    /\ u \in Returned
    /\ uthr[u].result = "success"
    /\ \A v \in Returned : uthr[v].ret <= uthr[u].ret

ApiQuiet == UNCHANGED <<op, request, resp>>

\* get_all_use_cases, line 94: `if use_case_cache is None`
ListCheck(t) ==
    /\ FirstFree(lthr, ListOrder, t)
    /\ WorkerFree
    /\ calls < MaxCalls
    /\ calls' = calls + 1
    /\ lthr' = [lthr EXCEPT ![t] =
                  [IdleList EXCEPT !.pc = IF use_case_cache.set THEN "return"
                                          ELSE "extract",
                                   !.epoch = epoch,
                                   !.hit = use_case_cache.set,
                                   !.next = (listsSinceUpdate = 0 /\ NoUpdateInProgress),
                                   !.quiet = NoUpdateInProgress]]
    /\ listsSinceUpdate' = IF listsSinceUpdate = 0 THEN 1 ELSE listsSinceUpdate
    /\ UNCHANGED <<uthr, cthr, epoch, gens, updates>>
    /\ UNCHANGED <<DB_TYPE, DB_HOST, DB_PORT, DB_NAME, DB_USER, DB_PASSWORD,
                   JDBC_URL, use_case_cache, builds>>
    /\ ApiQuiet
    /\ UNCHANGED <<nvars, evars, tvars>>

\* lines 96-97: DatabaseSchemaExtractor(JDBC_URL).get_schema()
ListExtract(t) ==
    /\ lthr[t].pc = "extract"
    /\ \E outcome \in {"returns", "raises"} :
         lthr' = [lthr EXCEPT ![t] =
                    IF ~JDBC_URL.set \/ outcome = "raises"
                    THEN [@ EXCEPT !.pc = "done", !.result = "error"]
                    ELSE [@ EXCEPT !.pc = "construct", !.url = JDBC_URL.v]]
    /\ UNCHANGED <<uthr, cthr, epoch, gens, updates, calls>>
    /\ UNCHANGED <<DB_TYPE, DB_HOST, DB_PORT, DB_NAME, DB_USER, DB_PASSWORD,
                   JDBC_URL, use_case_cache, builds, listsSinceUpdate>>
    /\ ApiQuiet
    /\ UNCHANGED <<nvars, evars, tvars>>

\* lines 99-104: FinanceQueryGenerator(schema, api_key, db_type=DB_TYPE, model)
ListConstruct(t) ==
    /\ lthr[t].pc = "construct"
    /\ \E outcome \in {"returns", "raises"} :
         lthr' = [lthr EXCEPT ![t] =
                    IF outcome = "raises"
                    THEN [@ EXCEPT !.pc = "done", !.result = "error"]
                    ELSE [@ EXCEPT !.pc = "generate", !.type = DB_TYPE.v]]
    /\ UNCHANGED <<uthr, cthr, epoch, gens, updates, calls>>
    /\ UNCHANGED <<DB_TYPE, DB_HOST, DB_PORT, DB_NAME, DB_USER, DB_PASSWORD,
                   JDBC_URL, use_case_cache, builds, listsSinceUpdate>>
    /\ ApiQuiet
    /\ UNCHANGED <<nvars, evars, tvars>>

\* line 106, right-hand side: query_generator.generate_use_cases()
ListGenerate(t) ==
    /\ lthr[t].pc = "generate"
    /\ \E outcome \in {"returns", "raises"} :
         IF outcome = "raises"
         THEN /\ lthr' = [lthr EXCEPT ![t] = [@ EXCEPT !.pc = "done", !.result = "error",
                                                        !.generated = TRUE]]
              /\ UNCHANGED <<builds, gens>>
         ELSE /\ builds < MaxBuilds
              /\ lthr' = [lthr EXCEPT ![t] =
                            [@ EXCEPT !.pc = "store", !.generated = TRUE,
                                      !.cat = GenerateUseCases(lthr[t].url, lthr[t].type,
                                                               builds + 1)]]
              /\ builds' = builds + 1
              /\ gens' = [gens EXCEPT ![lthr[t].epoch] = @ + 1]
    /\ UNCHANGED <<uthr, cthr, epoch, updates, calls>>
    /\ UNCHANGED <<DB_TYPE, DB_HOST, DB_PORT, DB_NAME, DB_USER, DB_PASSWORD,
                   JDBC_URL, use_case_cache, listsSinceUpdate>>
    /\ ApiQuiet
    /\ UNCHANGED <<nvars, evars, tvars>>

\* line 106, the assignment: use_case_cache = ...
ListStore(t) ==
    /\ lthr[t].pc = "store"
    /\ use_case_cache' = lthr[t].cat
    /\ lthr' = [lthr EXCEPT ![t] = [@ EXCEPT !.pc = "return"]]
    /\ UNCHANGED <<uthr, cthr, epoch, gens, updates, calls>>
    /\ UNCHANGED <<DB_TYPE, DB_HOST, DB_PORT, DB_NAME, DB_USER, DB_PASSWORD,
                   JDBC_URL, builds, listsSinceUpdate>>
    /\ ApiQuiet
    /\ UNCHANGED <<nvars, evars, tvars>>

\* line 110: `return use_case_cache`, the reply of get_use_cases
ListReturn(t) ==
    /\ lthr[t].pc = "return"
    /\ lthr' = [lthr EXCEPT ![t] =
                  [@ EXCEPT !.pc = "done", !.result = "success",
                            !.url = <<>>, !.type = <<>>, !.cat = use_case_cache]]
    /\ UNCHANGED <<uthr, cthr, epoch, gens, updates, calls>>
    /\ UNCHANGED <<DB_TYPE, DB_HOST, DB_PORT, DB_NAME, DB_USER, DB_PASSWORD,
                   JDBC_URL, use_case_cache, builds, listsSinceUpdate>>
    /\ ApiQuiet
    /\ UNCHANGED <<nvars, evars, tvars>>

\* receive_db_details, line 224: DB_TYPE = details.DB_TYPE.lower()
UpdType(u) ==
    /\ FirstFree(uthr, UpdateOrder, u)
    /\ WorkerFree
    /\ updates < MaxUpdates
    /\ calls < MaxCalls
    /\ \E d \in ConcDetails :
         /\ DB_TYPE' = Bound(LowerTable[d.DB_TYPE])
         /\ uthr' = [uthr EXCEPT ![u] =
                       [IdleUpdate EXCEPT !.pc = "host", !.details = <<d>>,
                                          !.before = Profile, !.base = builds]]
    /\ updates' = updates + 1
    /\ calls' = calls + 1
    /\ listsSinceUpdate' = -1
    /\ lthr' = [t \in ListThreads |-> [lthr[t] EXCEPT !.next = FALSE, !.quiet = FALSE]]
    /\ cthr' = [cthr EXCEPT !.quiet = FALSE]
    /\ UNCHANGED <<epoch, gens>>
    /\ UNCHANGED <<DB_HOST, DB_PORT, DB_NAME, DB_USER, DB_PASSWORD, JDBC_URL,
                   use_case_cache, builds>>
    /\ ApiQuiet
    /\ UNCHANGED <<nvars, evars, tvars>>

\* line 225: DB_HOST = details.DB_HOST
UpdHost(u) ==
    /\ uthr[u].pc = "host"
    /\ DB_HOST' = Bound(uthr[u].details[1].DB_HOST)
    /\ uthr' = [uthr EXCEPT ![u] = [@ EXCEPT !.pc = "name"]]
    /\ UNCHANGED <<lthr, cthr, epoch, gens, updates, calls>>
    /\ UNCHANGED <<DB_TYPE, DB_PORT, DB_NAME, DB_USER, DB_PASSWORD, JDBC_URL,
                   use_case_cache, builds, listsSinceUpdate>>
    /\ ApiQuiet
    /\ UNCHANGED <<nvars, evars, tvars>>

\* line 226: DB_NAME = details.DB_NAME
UpdName(u) ==
    /\ uthr[u].pc = "name"
    /\ DB_NAME' = Bound(uthr[u].details[1].DB_NAME)
    /\ uthr' = [uthr EXCEPT ![u] = [@ EXCEPT !.pc = "user"]]
    /\ UNCHANGED <<lthr, cthr, epoch, gens, updates, calls>>
    /\ UNCHANGED <<DB_TYPE, DB_HOST, DB_PORT, DB_USER, DB_PASSWORD, JDBC_URL,
                   use_case_cache, builds, listsSinceUpdate>>
    /\ ApiQuiet
    /\ UNCHANGED <<nvars, evars, tvars>>

\* line 227: DB_USER = details.DB_USER
UpdUser(u) ==
    /\ uthr[u].pc = "user"
    /\ DB_USER' = Bound(uthr[u].details[1].DB_USER)
    /\ uthr' = [uthr EXCEPT ![u] = [@ EXCEPT !.pc = "password"]]
    /\ UNCHANGED <<lthr, cthr, epoch, gens, updates, calls>>
    /\ UNCHANGED <<DB_TYPE, DB_HOST, DB_PORT, DB_NAME, DB_PASSWORD, JDBC_URL,
                   use_case_cache, builds, listsSinceUpdate>>
    /\ ApiQuiet
    /\ UNCHANGED <<nvars, evars, tvars>>

\* line 228: DB_PASSWORD = details.DB_PASSWORD
UpdPassword(u) ==
    /\ uthr[u].pc = "password"
    /\ DB_PASSWORD' = Bound(uthr[u].details[1].DB_PASSWORD)
    /\ uthr' = [uthr EXCEPT ![u] = [@ EXCEPT !.pc = "port"]]
    /\ UNCHANGED <<lthr, cthr, epoch, gens, updates, calls>>
    /\ UNCHANGED <<DB_TYPE, DB_HOST, DB_PORT, DB_NAME, DB_USER, JDBC_URL,
                   use_case_cache, builds, listsSinceUpdate>>
    /\ ApiQuiet
    /\ UNCHANGED <<nvars, evars, tvars>>

\* lines 231-237: the port.  Without one the default is computed from a read
\* of DB_TYPE (line 232, right-hand side); one that is not all digits is
\* rejected (235); otherwise DB_PORT is assigned from the request (237)
UpdPort(u) ==
    /\ uthr[u].pc = "port"
    /\ IF PortMissing(uthr[u].details[1])
       THEN /\ uthr' = [uthr EXCEPT ![u] = [@ EXCEPT !.pc = "default",
                                                !.port = DefaultPort(DB_TYPE.v)]]
            /\ UNCHANGED DB_PORT
       ELSE IF ~IsDigits(uthr[u].details[1].DB_PORT.v)
       THEN /\ uthr' = [uthr EXCEPT ![u] = [@ EXCEPT !.pc = "done", !.result = "error",
                                                !.ret = NextRet(u)]]
            /\ UNCHANGED DB_PORT
       ELSE /\ DB_PORT' = Bound(uthr[u].details[1].DB_PORT.v)
            /\ uthr' = [uthr EXCEPT ![u] = [@ EXCEPT !.pc = "url"]]
    /\ UNCHANGED <<lthr, cthr, epoch, gens, updates, calls>>
    /\ UNCHANGED <<DB_TYPE, DB_HOST, DB_NAME, DB_USER, DB_PASSWORD, JDBC_URL,
                   use_case_cache, builds, listsSinceUpdate>>
    /\ ApiQuiet
    /\ UNCHANGED <<nvars, evars, tvars>>

\* line 232, the assignment: DB_PORT = the default computed
UpdDefaultPort(u) ==
    /\ uthr[u].pc = "default"
    /\ DB_PORT' = Bound(uthr[u].port)
    /\ uthr' = [uthr EXCEPT ![u] = [@ EXCEPT !.pc = "url", !.port = <<>>]]
    /\ UNCHANGED <<lthr, cthr, epoch, gens, updates, calls>>
    /\ UNCHANGED <<DB_TYPE, DB_HOST, DB_NAME, DB_USER, DB_PASSWORD, JDBC_URL,
                   use_case_cache, builds, listsSinceUpdate>>
    /\ ApiQuiet
    /\ UNCHANGED <<nvars, evars, tvars>>

\* line 240: `if DB_TYPE == "mysql"`
UpdTestMysql(u) ==
    /\ uthr[u].pc = "url"
    /\ uthr' = [uthr EXCEPT ![u] =
                  IF DB_TYPE.v = kMysql
                  THEN [@ EXCEPT !.pc = "read_user", !.scheme = kMysqlScheme]
                  ELSE [@ EXCEPT !.pc = "elif"]]
    /\ UNCHANGED <<lthr, cthr, epoch, gens, updates, calls>>
    /\ UNCHANGED <<DB_TYPE, DB_HOST, DB_PORT, DB_NAME, DB_USER, DB_PASSWORD,
                   JDBC_URL, use_case_cache, builds, listsSinceUpdate>>
    /\ ApiQuiet
    /\ UNCHANGED <<nvars, evars, tvars>>

\* lines 242-245: `elif DB_TYPE in ["postgresql", "postgres"]`, a second read
\* of DB_TYPE, and the rejection of any other kind
UpdTestPostgres(u) ==
    /\ uthr[u].pc = "elif"
    /\ uthr' = [uthr EXCEPT ![u] =
                  IF DB_TYPE.v \in {kPostgresql, kPostgres}
                  THEN [@ EXCEPT !.pc = "read_user", !.scheme = kPostgresScheme]
                  ELSE [@ EXCEPT !.pc = "done", !.result = "error",
                                 !.ret = NextRet(u)]]
    /\ UNCHANGED <<lthr, cthr, epoch, gens, updates, calls>>
    /\ UNCHANGED <<DB_TYPE, DB_HOST, DB_PORT, DB_NAME, DB_USER, DB_PASSWORD,
                   JDBC_URL, use_case_cache, builds, listsSinceUpdate>>
    /\ ApiQuiet
    /\ UNCHANGED <<nvars, evars, tvars>>

\* lines 241, 243, the f-string: {DB_USER}
UpdReadUser(u) ==
    /\ uthr[u].pc = "read_user"
    /\ uthr' = [uthr EXCEPT ![u] = [@ EXCEPT !.pc = "read_password",
                                          !.read.DB_USER = DB_USER]]
    /\ UNCHANGED <<lthr, cthr, epoch, gens, updates, calls>>
    /\ UNCHANGED <<DB_TYPE, DB_HOST, DB_PORT, DB_NAME, DB_USER, DB_PASSWORD,
                   JDBC_URL, use_case_cache, builds, listsSinceUpdate>>
    /\ ApiQuiet
    /\ UNCHANGED <<nvars, evars, tvars>>

\* lines 241, 243, the f-string: DB_PASSWORD, the argument of quote_plus
UpdReadPassword(u) ==
    /\ uthr[u].pc = "read_password"
    /\ uthr' = [uthr EXCEPT ![u] = [@ EXCEPT !.pc = "read_host",
                                          !.read.DB_PASSWORD = DB_PASSWORD]]
    /\ UNCHANGED <<lthr, cthr, epoch, gens, updates, calls>>
    /\ UNCHANGED <<DB_TYPE, DB_HOST, DB_PORT, DB_NAME, DB_USER, DB_PASSWORD,
                   JDBC_URL, use_case_cache, builds, listsSinceUpdate>>
    /\ ApiQuiet
    /\ UNCHANGED <<nvars, evars, tvars>>

\* lines 241, 243, the f-string: {DB_HOST}
UpdReadHost(u) ==
    /\ uthr[u].pc = "read_host"
    /\ uthr' = [uthr EXCEPT ![u] = [@ EXCEPT !.pc = "read_port",
                                          !.read.DB_HOST = DB_HOST]]
    /\ UNCHANGED <<lthr, cthr, epoch, gens, updates, calls>>
    /\ UNCHANGED <<DB_TYPE, DB_HOST, DB_PORT, DB_NAME, DB_USER, DB_PASSWORD,
                   JDBC_URL, use_case_cache, builds, listsSinceUpdate>>
    /\ ApiQuiet
    /\ UNCHANGED <<nvars, evars, tvars>>

\* lines 241, 243, the f-string: {DB_PORT}
UpdReadPort(u) ==
    /\ uthr[u].pc = "read_port"
    /\ uthr' = [uthr EXCEPT ![u] = [@ EXCEPT !.pc = "read_name",
                                          !.read.DB_PORT = DB_PORT]]
    /\ UNCHANGED <<lthr, cthr, epoch, gens, updates, calls>>
    /\ UNCHANGED <<DB_TYPE, DB_HOST, DB_PORT, DB_NAME, DB_USER, DB_PASSWORD,
                   JDBC_URL, use_case_cache, builds, listsSinceUpdate>>
    /\ ApiQuiet
    /\ UNCHANGED <<nvars, evars, tvars>>

\* lines 241, 243, the f-string: {DB_NAME}
UpdReadName(u) ==
    /\ uthr[u].pc = "read_name"
    /\ uthr' = [uthr EXCEPT ![u] = [@ EXCEPT !.pc = "store",
                                          !.read.DB_NAME = DB_NAME]]
    /\ UNCHANGED <<lthr, cthr, epoch, gens, updates, calls>>
    /\ UNCHANGED <<DB_TYPE, DB_HOST, DB_PORT, DB_NAME, DB_USER, DB_PASSWORD,
                   JDBC_URL, use_case_cache, builds, listsSinceUpdate>>
    /\ ApiQuiet
    /\ UNCHANGED <<nvars, evars, tvars>>

\* lines 241, 243, the assignment: JDBC_URL = the text formatted from what
\* the thread has read
UpdStoreUrl(u) ==
    /\ uthr[u].pc = "store"
    /\ JDBC_URL' = Bound(MakeUrl(uthr[u].scheme, uthr[u].read))
    /\ uthr' = [uthr EXCEPT ![u] = [@ EXCEPT !.pc = "reset", !.scheme = <<>>,
                                          !.read = NoRead]]
    /\ UNCHANGED <<lthr, cthr, epoch, gens, updates, calls>>
    /\ UNCHANGED <<DB_TYPE, DB_HOST, DB_PORT, DB_NAME, DB_USER, DB_PASSWORD,
                   use_case_cache, builds, listsSinceUpdate>>
    /\ ApiQuiet
    /\ UNCHANGED <<nvars, evars, tvars>>

\* lines 247-250: print, then use_case_cache = None, which starts a new epoch
\* of the cache
UpdReset(u) ==
    /\ uthr[u].pc = "reset"
    /\ use_case_cache' = NoCatalog
    /\ epoch' = epoch + 1
    /\ uthr' = [uthr EXCEPT ![u] = [@ EXCEPT !.pc = "reply"]]
    /\ UNCHANGED <<lthr, cthr, gens, updates, calls>>
    /\ UNCHANGED <<DB_TYPE, DB_HOST, DB_PORT, DB_NAME, DB_USER, DB_PASSWORD,
                   JDBC_URL, builds, listsSinceUpdate>>
    /\ ApiQuiet
    /\ UNCHANGED <<nvars, evars, tvars>>

\* lines 252-256: the success body, with JDBC_URL as it is now
UpdReply(u) ==
    /\ uthr[u].pc = "reply"
    /\ uthr' = [uthr EXCEPT ![u] = [@ EXCEPT !.pc = "done", !.result = "success",
                                          !.url = JDBC_URL.v, !.ret = NextRet(u)]]
    /\ listsSinceUpdate' = 0
    /\ UNCHANGED <<lthr, cthr, epoch, gens, updates, calls>>
    /\ UNCHANGED <<DB_TYPE, DB_HOST, DB_PORT, DB_NAME, DB_USER, DB_PASSWORD,
                   JDBC_URL, use_case_cache, builds>>
    /\ ApiQuiet
    /\ UNCHANGED <<nvars, evars, tvars>>

\* get_db_connection, line 45: port_number
ConnPort ==
    /\ cthr.pc \in {"idle", "done"}
    /\ calls < MaxCalls
    /\ calls' = calls + 1
    /\ cthr' = IF ~DB_PORT.set
               THEN [IdleConn EXCEPT !.pc = "done",
                                     !.conn = [NoConnection EXCEPT !.status = "http500"]]
               ELSE [IdleConn EXCEPT !.pc = "connect",
                                     !.port = PortNumber(DB_PORT.v, DB_TYPE.v),
                                     !.quiet = (NoUpdateInProgress /\
                                                \E u \in UpdateThreads : LatestAccepted(u))]
    /\ UNCHANGED <<lthr, uthr, epoch, gens, updates>>
    /\ UNCHANGED <<DB_TYPE, DB_HOST, DB_PORT, DB_NAME, DB_USER, DB_PASSWORD,
                   JDBC_URL, use_case_cache, builds, listsSinceUpdate>>
    /\ ApiQuiet
    /\ UNCHANGED <<nvars, evars, tvars>>

\* get_db_connection, lines 47-53: `if DB_TYPE.lower() == "mysql"` and the
\* connect call of mysql.connector
ConnMysql ==
    /\ cthr.pc = "connect"
    /\ IF ToLower(DB_TYPE.v) = kMysql
       THEN \E outcome \in {"returns", "raises"} :
              cthr' = [cthr EXCEPT !.pc = "done",
                                   !.conn = Connect("mysql.connector", cthr.port, outcome)]
       ELSE cthr' = [cthr EXCEPT !.pc = "elif"]
    /\ UNCHANGED <<lthr, uthr, epoch, gens, updates, calls>>
    /\ UNCHANGED <<DB_TYPE, DB_HOST, DB_PORT, DB_NAME, DB_USER, DB_PASSWORD,
                   JDBC_URL, use_case_cache, builds, listsSinceUpdate>>
    /\ ApiQuiet
    /\ UNCHANGED <<nvars, evars, tvars>>

\* lines 54-66: `elif DB_TYPE.lower() in ["postgresql", "postgres"]`, a second
\* read of DB_TYPE, the connect call of psycopg2, and HTTP 500 for any other
\* kind
ConnPostgres ==
    /\ cthr.pc = "elif"
    /\ IF ToLower(DB_TYPE.v) \in {kPostgresql, kPostgres}
       THEN \E outcome \in {"returns", "raises"} :
              cthr' = [cthr EXCEPT !.pc = "done",
                                   !.conn = Connect("psycopg2", cthr.port, outcome)]
       ELSE cthr' = [cthr EXCEPT !.pc = "done",
                                 !.conn = [NoConnection EXCEPT !.status = "http500"]]
    /\ UNCHANGED <<lthr, uthr, epoch, gens, updates, calls>>
    /\ UNCHANGED <<DB_TYPE, DB_HOST, DB_PORT, DB_NAME, DB_USER, DB_PASSWORD,
                   JDBC_URL, use_case_cache, builds, listsSinceUpdate>>
    /\ ApiQuiet
    /\ UNCHANGED <<nvars, evars, tvars>>

\* POST /api/v1/update_data: one read of JDBC_URL, then the failing call
PostUpdateData ==
    /\ WorkerFree
    /\ calls < MaxCalls
    /\ calls' = calls + 1
    /\ \E req \in UpdateRequests :
        /\ op' = "update_data"
        /\ request' = <<req>>
        /\ resp' = UpdateData(Globals, req)
    /\ UNCHANGED <<lthr, uthr, cthr, epoch, gens, updates>>
    /\ UNCHANGED <<DB_TYPE, DB_HOST, DB_PORT, DB_NAME, DB_USER, DB_PASSWORD,
                   JDBC_URL, use_case_cache, builds, listsSinceUpdate>>
    /\ UNCHANGED <<nvars, evars, tvars>>

ListStep ==
    \E t \in ListThreads :
        \/ ListCheck(t)
        \/ ListExtract(t)
        \/ ListConstruct(t)
        \/ ListGenerate(t)
        \/ ListStore(t)
        \/ ListReturn(t)

UpdateStep ==
    \E u \in UpdateThreads :
        \/ UpdType(u)
        \/ UpdHost(u)
        \/ UpdName(u)
        \/ UpdUser(u)
        \/ UpdPassword(u)
        \/ UpdPort(u)
        \/ UpdDefaultPort(u)
        \/ UpdTestMysql(u)
        \/ UpdTestPostgres(u)
        \/ UpdReadUser(u)
        \/ UpdReadPassword(u)
        \/ UpdReadHost(u)
        \/ UpdReadPort(u)
        \/ UpdReadName(u)
        \/ UpdStoreUrl(u)
        \/ UpdReset(u)
        \/ UpdReply(u)

ConnStep ==
    \/ ConnPort
    \/ ConnMysql
    \/ ConnPostgres

----------------------------------------------------------------------------
(* Specifications *)

\* the executor against the backend
Init == ExecInit /\ NormIdle /\ ApiIdle /\ TemplIdle /\ ConcIdle
CallExecuteQueries ==
    pc = "idle" /\ \E qs \in Batches, ui \in UserInputs : ExecuteQueriesBegin(qs, ui)
LoopIteration ==
    pc = "running" /\ \E fault \in Faults : ExecStatement(fault)
Next ==
    \/ CallExecuteQueries
    \/ LoopIteration
    \/ ExecuteQueriesReturn
    \/ NextCall
Spec == Init /\ [][Next]_vars

\* the repair pass on generated statement texts
InitNormalize == NormInit /\ ExecIdle /\ ApiIdle /\ TemplIdle /\ ConcIdle
NextNormalize == Normalize \/ NormalizeAgain
SpecNormalize == InitNormalize /\ [][NextNormalize]_vars

\* use_cases and dbDetails requests, served on worker threads
InitApi == ApiInit /\ ConcInit /\ ExecIdle /\ NormIdle /\ TemplIdle
NextApi == ListStep \/ UpdateStep
SpecApi == InitApi /\ [][NextApi]_vars

\* update_data requests, served while dbDetails requests are
InitUpdateData == ApiInit /\ ConcInit /\ ExecBehindApi /\ NormIdle /\ TemplIdle
NextUpdateData == PostUpdateData \/ UpdateStep
SpecUpdateData == InitUpdateData /\ [][NextUpdateData]_vars

\* get_db_connection, which no endpoint calls, called by an importer of the
\* module while dbDetails requests are served
InitConnect == ApiInit /\ ConcInit /\ ExecIdle /\ NormIdle /\ TemplIdle
NextConnect == UpdateStep \/ ConnStep
SpecConnect == InitConnect /\ [][NextConnect]_vars

\* extract_column_names and the placeholder unification on statement texts
InitTemplates == TemplInit /\ ExecIdle /\ ApiIdle /\ NormIdle /\ ConcIdle
NextTemplates == ExtractColumns \/ Unify
SpecTemplates == InitTemplates /\ [][NextTemplates]_vars

----------------------------------------------------------------------------
(* Properties of execute_queries *)

\* number of the statement the loop handled last
Last == idx - 1

\* the loop has just handled a statement
Handled == pc = "running" /\ idx > 1

\* positions in the log of the session calls of the given kinds made while
\* statement i was handled
CallsFor(i, kinds) ==
    { k \in 1..Len(log) : log[k].stmt = i /\ log[k].ev \in kinds }

\* the transaction statement i was executed in
TxnOf(i) == log[CHOOSE k \in 1..Len(log) : log[k].stmt = i /\ log[k].ev = "execute"].txn

\* positions in the log of the calls that ended transaction t
EndsOf(t) ==
    { k \in 1..Len(log) :
        log[k].txn = t /\ log[k].ev \in {"commit", "rollback", "release_rollback"} }

\* the statement the backend received for statement i
SentText(i) == FixTable[queries[i].query]

\* C1 as claimed: when execute_queries has returned, the session is released
\* with no transaction open, and for every statement of the batch, whatever
\* its kind and outcome, exactly one commit or exactly one rollback was issued
\* for it: not both and not neither.
C1_EveryStatementCommittedOrRolledBack ==
    pc = "returned" =>
        /\ txn = 0
        /\ log[Len(log)].ev = "close"
        /\ \A i \in 1..Len(queries) :
               Cardinality(CallsFor(i, {"commit", "rollback"})) = 1

\* statement i is a SELECT that succeeded
SelectSucceeded(i) ==
    ~results[i].has_error /\ DispatchTable[SentText(i)] = "select"

\* C1 amended: when execute_queries has returned, the session is released
\* with no transaction open and nothing uncommitted in its view, and every
\* statement of the batch was executed once; for a DELETE, INSERT or UPDATE
\* that succeeded exactly one commit and no rollback was issued; for a
\* statement that failed, of any kind and for any error, exactly one rollback
\* was issued and no commit took effect; for a SELECT that succeeded neither
\* was issued: its transaction stays open and is ended once, by the commit or
\* rollback of a later statement of the batch or by the rollback of the
\* release.
C1_TransactionEndedOnce ==
    pc = "returned" =>
        /\ txn = 0
        /\ work = db
        /\ log[Len(log)].ev = "close"
        /\ \A i \in 1..Len(queries) :
            LET ends == EndsOf(TxnOf(i))
                e    == log[CHOOSE k \in ends : TRUE]
            IN  /\ Cardinality(CallsFor(i, {"execute"})) = 1
                /\ results[i].has_error =>
                       /\ Cardinality(CallsFor(i, {"rollback"})) = 1
                       /\ CallsFor(i, {"commit"}) = {}
                /\ (~results[i].has_error /\ ~SelectSucceeded(i)) =>
                       /\ Cardinality(CallsFor(i, {"commit"})) = 1
                       /\ CallsFor(i, {"rollback", "commit_failed"}) = {}
                /\ SelectSucceeded(i) =>
                       /\ CallsFor(i, {"commit", "commit_failed", "rollback"}) = {}
                       /\ Cardinality(ends) = 1
                       /\ \/ e.ev = "release_rollback"
                          \/ e.ev \in {"commit", "rollback"} /\ e.stmt > i

\* C1 witness: a call has returned after a SELECT that succeeded and whose
\* transaction the release ended, and another statement that was committed or
\* rolled back
C1_Witness ==
    /\ pc = "returned"
    /\ Len(queries) = 2
    /\ SelectSucceeded(2)
    /\ \E k \in 1..Len(log) : log[k].ev \in {"commit", "rollback"} /\ log[k].stmt = 1
    /\ \E k \in 1..Len(log) : log[k].ev = "release_rollback"

\* the latest statement was a DELETE, accepted by the parser, of an existing
\* row that other rows referenced when the statement started
DeleteWithDependents ==
    /\ Handled
    /\ SentText(Last) = qDelete
    /\ inputs.bound
    /\ faults[Last] = "none"
    /\ snap[inputs.id].present
    /\ Dependents(snap, inputs.id) # {}

\* C2: a DELETE of a row that other rows reference sets mgr of every
\* referencing row to NULL, deletes the row and commits both.
C2_DependentsClearedAndDeleted ==
    DeleteWithDependents =>
        /\ ~db[inputs.id].present
        /\ \A r \in Dependents(snap, inputs.id) : db[r].present /\ db[r].mgr = 0
        /\ CallsFor(Last, {"commit"}) # {}

\* C3: a DELETE that a foreign key blocks is rolled back: the committed state
\* and the session's view equal the state before the statement, the row is
\* still there, every referencing row still references it, and no transaction
\* is left open.
C3_BlockedDeleteRolledBack ==
    (Handled /\ DispatchTable[SentText(Last)] = "delete"
             /\ results[Last].ekind = "integrity") =>
        /\ db = snap
        /\ work = snap
        /\ txn = 0
        /\ Cardinality(CallsFor(Last, {"rollback"})) = 1
        /\ CallsFor(Last, {"commit"}) = {}
        /\ db[inputs.id].present
        /\ \A r \in Dependents(snap, inputs.id) : db[r].mgr = inputs.id

\* C3 witness: a DELETE of a referenced row has just been refused
C3_Witness ==
    /\ DeleteWithDependents
    /\ results[Last].ekind = "integrity"

\* the latest statement failed with a ProgrammingError whose text names a
\* syntax error
SyntaxDefect ==
    /\ Handled
    /\ results[Last].ekind = "programming"
    /\ Contains(ToLower(results[Last].emsg), kSyntax)

\* C4 as claimed: after a syntax defect the transaction is rolled back, the
\* repair pass has run exactly once more, its output is reported as the
\* suggested fix, and the statement was executed once.
C4_RepairAlwaysSuggested ==
    SyntaxDefect =>
        /\ Cardinality(CallsFor(Last, {"rollback"})) = 1
        /\ passes[Last] = 2
        /\ results[Last].has_fix
        /\ results[Last].fix = RefixTable[results[Last].query]
        /\ Cardinality(CallsFor(Last, {"execute"})) = 1

\* C4 amended: every statement is executed exactly once, with the text of the
\* first repair pass, whatever the outcome.  After a ProgrammingError the
\* transaction is rolled back and never committed, the repair pass runs at
\* most once more, and a suggested fix is reported only when that second pass
\* ran and changed the text; the suggested text is never sent to the backend.
C4_NoRetrySuggestionOnly ==
    \A i \in 1..Len(results) :
        /\ Cardinality(CallsFor(i, {"execute"})) = 1
        /\ \A k \in CallsFor(i, {"execute"}) : log[k].text = results[i].query
        /\ results[i].query = SentText(i)
        /\ results[i].ekind = "programming" =>
            /\ Cardinality(CallsFor(i, {"rollback"})) = 1
            /\ CallsFor(i, {"commit"}) = {}
            /\ passes[i] \in {1, 2}
            /\ results[i].has_fix =>
                /\ passes[i] = 2
                /\ results[i].fix # results[i].query
                /\ results[i].fix = RefixTable[results[i].query]
                /\ \A k \in 1..Len(log) : log[k].text # results[i].fix
            /\ ~results[i].has_fix =>
                \/ passes[i] = 1
                \/ RefixTable[results[i].query] = results[i].query
        /\ results[i].ekind # "programming" => ~results[i].has_fix /\ passes[i] = 1

\* C4 witness: a syntax defect has been reported together with a suggested fix
C4_Witness ==
    /\ SyntaxDefect
    /\ results[Last].has_fix
    /\ passes[Last] = 2

\* an entry that says no record matched
NoRecords(r) == r.has_results /\ r.rtype = "str" /\ r.text = "No records found."

\* the latest statement was a SELECT the backend ran without error and that
\* matched no row
SelectMatchedNothing ==
    /\ Handled
    /\ DispatchTable[SentText(Last)] = "select"
    /\ BackendRun(SentText(Last), inputs, snap, faults[Last]).status = "ok"
    /\ BackendRun(SentText(Last), inputs, snap, faults[Last]).rows = <<>>

\* C10: a SELECT that matched no row yields the "No records found." entry,
\* which carries no error; no failure entry and no entry with rows is a
\* "No records found." entry.
C10_NoRecordsDistinct ==
    /\ SelectMatchedNothing => NoRecords(results[Last]) /\ ~results[Last].has_error
    /\ \A i \in 1..Len(results) :
        /\ results[i].has_error => ~results[i].has_results /\ ~NoRecords(results[i])
        /\ NoRecords(results[i]) => ~results[i].has_error /\ results[i].rows = <<>>
        /\ results[i].rtype = "list" => results[i].rows # <<>> /\ ~NoRecords(results[i])

\* C10 witness: a SELECT has just matched no row, after a statement that failed
C10_Witness ==
    /\ SelectMatchedNothing
    /\ Last = 2
    /\ results[1].has_error

\* the latest statement was refused by the backend for a constraint
ConstraintViolation ==
    /\ Handled
    /\ BackendRun(SentText(Last), inputs, snap, faults[Last]).status = "integrity"

\* C11: a statement the backend refuses for a constraint is rolled back and
\* not committed, its entry is a failure that carries the fixed message that
\* the record is referenced elsewhere and no suggested fix, the committed state
\* is the one before the statement, and the statement was sent to the backend
\* once.
C11_ConstraintViolationReported ==
    ConstraintViolation =>
        /\ results[Last].has_error
        /\ ~results[Last].has_results
        /\ results[Last].ekind = "integrity"
        /\ results[Last].emsg = kForeignKeyError
        /\ ~results[Last].has_fix
        /\ Cardinality(CallsFor(Last, {"rollback"})) = 1
        /\ CallsFor(Last, {"commit"}) = {}
        /\ Cardinality(CallsFor(Last, {"execute"})) = 1
        /\ db = snap
        /\ work = snap
        /\ txn = 0

\* C11 witness: an UPDATE or INSERT has just been refused for a constraint
C11_Witness ==
    /\ ConstraintViolation
    /\ DispatchTable[SentText(Last)] = "write"
    /\ results[Last].emsg = kForeignKeyError

\* C20: while execute_queries runs and when it has returned, the list holds
\* one entry per statement handled, in the order of the batch, each for its
\* own statement, and each statement was sent to the backend once whatever
\* happened to the ones before it; at the return there is one entry per
\* statement of the batch.  A statement that failed leaves the committed state
\* as it was before it, so what earlier statements committed is kept; a
\* DELETE, INSERT or UPDATE that succeeded has its effect committed.
C20_OneResultPerQueryInOrder ==
    /\ pc \in {"running", "returned"} =>
        /\ Len(results) = idx - 1
        /\ \A i \in 1..Len(results) :
            /\ results[i].use_case = queries[i].use_case
            /\ results[i].query = SentText(i)
            /\ results[i].user_input_columns = queries[i].user_input_columns
            /\ results[i].has_error # results[i].has_results
            /\ Cardinality(CallsFor(i, {"execute"})) = 1
    /\ pc = "returned" => Len(results) = Len(queries)
    /\ Handled =>
        /\ results[Last].has_error => db = snap
        /\ ~results[Last].has_error =>
               db = IF DispatchTable[SentText(Last)] = "select" THEN snap
                    ELSE BackendRun(SentText(Last), inputs, snap, "none").db

\* C20 witness: a call has returned in which the first statement failed and
\* the second changed a row and was committed
C20_Witness ==
    /\ pc = "returned"
    /\ Len(queries) = 2
    /\ results[1].has_error
    /\ ~results[2].has_error
    /\ results[2].count = 1
    /\ \E k \in 1..Len(log) : log[k].ev = "commit" /\ log[k].stmt = 2

----------------------------------------------------------------------------
(* Properties of the endpoints of api.py *)

\* the parameter list of an update_data request as bound values
BoundParams(req) == [bound |-> TRUE, id |-> req.params[1], m |-> req.params[2]]

\* the step in which an update_data request is served
UpdateDataServed == calls' = calls + 1 /\ UNCHANGED <<lthr, uthr, cthr>>

\* update_data is called, with a connection URL in place, for an INSERT or
\* UPDATE that the backend accepts with the request's values
UpdateAccepted ==
    /\ UpdateDataServed
    /\ JDBC_URL.set
    /\ Meaning(request'[1].query) \in {"insert", "update"}
    /\ BackendRun(request'[1].query, BoundParams(request'[1]), snap, "none").status = "ok"

\* C5: update_data for an INSERT or UPDATE that the backend accepts executes
\* the statement, commits and answers with the outcome of the statement, not
\* with a failure.
C5_AcceptedWriteReturnsCount ==
    [][ UpdateAccepted =>
          /\ resp'.status = "success"
          /\ db' = BackendRun(request'[1].query, BoundParams(request'[1]), snap,
                              "none").db ]_vars

\* the fields of the profile, which only receive_db_details assigns
ProfileFields == <<DB_TYPE, DB_HOST, DB_PORT, DB_NAME, DB_USER, DB_PASSWORD, JDBC_URL>>

\* the step in which thread u returns a rejection
Rejects(u) == uthr[u].pc # "done" /\ uthr'[u].pc = "done" /\ uthr'[u].result = "error"

\* the step in which thread u returns an acceptance
Accepts(u) == uthr[u].pc = "reply" /\ uthr'[u].pc = "done"

\* the profile when a rejection is returned is the one in place when the
\* request began
RejectedLeavesProfile ==
    \A u \in UpdateThreads :
        Rejects(u) => /\ ProfileFields' = SubSeq(uthr[u].before, 1, 7)
                      /\ UNCHANGED use_case_cache

\* the profile when an acceptance is returned is the one of the request, and
\* the request has emptied the cache
AcceptedSetsProfile ==
    \A u \in UpdateThreads :
        /\ Accepts(u) =>
            /\ DB_TYPE' = Bound(LowerTable[uthr[u].details[1].DB_TYPE])
            /\ DB_HOST' = Bound(uthr[u].details[1].DB_HOST)
            /\ DB_NAME' = Bound(uthr[u].details[1].DB_NAME)
            /\ DB_USER' = Bound(uthr[u].details[1].DB_USER)
            /\ DB_PASSWORD' = Bound(uthr[u].details[1].DB_PASSWORD)
            /\ DB_PORT'.set
            /\ JDBC_URL' = Bound(MakeUrl(IF DB_TYPE'.v = kMysql THEN kMysqlScheme
                                          ELSE kPostgresScheme, Globals'))
        /\ (uthr[u].pc = "reset" /\ uthr'[u].pc = "reply") => use_case_cache' = NoCatalog

\* C6: a dbDetails request that is rejected leaves every field of the profile
\* and the cached catalog as they were when the request began; one that is
\* accepted has set every field from the request, the URL made of these
\* fields, and has emptied the cache.
C6_RejectedUpdateChangesNothing ==
    [][RejectedLeavesProfile /\ AcceptedSetsProfile]_vars

\* the catalog was generated from the URL answered to the request of thread u
\* and for the backend kind the request names
MadeForRequest(cat, u) ==
    /\ cat.url = uthr[u].url
    /\ cat.type = LowerTable[uthr[u].details[1].DB_TYPE]

\* C7, first use_cases call begun after an accepted dbDetails returned, with
\* no dbDetails request in progress then or since: the catalog it returns was
\* generated after that request began, for the URL and the backend kind of
\* the new profile.
RegeneratedAfterUpdate ==
    \A t \in ListThreads, u \in UpdateThreads :
        (lthr[t].pc = "done" /\ lthr[t].next /\ lthr[t].result = "success"
            /\ LatestAccepted(u)) =>
            /\ lthr[t].cat.set
            /\ lthr[t].cat.build > uthr[u].base
            /\ MadeForRequest(lthr[t].cat, u)

\* C7, use_cases call that found a catalog cached, with no dbDetails request
\* in progress since it began: it returns a catalog and generates none.
CachedOtherwise ==
    \A t \in ListThreads :
        (lthr[t].pc = "done" /\ lthr[t].hit /\ lthr[t].quiet) =>
            /\ lthr[t].result = "success"
            /\ lthr[t].cat.set
            /\ ~lthr[t].generated

\* C7: after an accepted dbDetails the next use_cases call generates the
\* catalog again for the new profile and does not return the one cached
\* before; while no dbDetails request intervenes, a use_cases call that finds
\* a catalog cached returns it without generating.
C7_RegeneratedAfterUpdateCachedOtherwise ==
    RegeneratedAfterUpdate /\ CachedOtherwise

\* the backend kind a request names is of the MySQL family
AsksMysql(details) == LowerTable[details.DB_TYPE] = kMysql

\* the port the profile holds when an accepted request returns
PortResolvedOnUpdate ==
    \A u \in UpdateThreads :
        Accepts(u) =>
            /\ (PortMissing(uthr[u].details[1]) /\ AsksMysql(uthr[u].details[1])) =>
                   DB_PORT'.v = kPort3306
            /\ (PortMissing(uthr[u].details[1]) /\ ~AsksMysql(uthr[u].details[1])) =>
                   DB_PORT'.v = kPort5432
            /\ ~PortMissing(uthr[u].details[1]) =>
                   DB_PORT'.v = uthr[u].details[1].DB_PORT.v

\* the port of a connection opened on the profile an accepted request left,
\* with no dbDetails request in progress since get_db_connection began
PortResolvedOnConnect ==
    \A u \in UpdateThreads :
        (LatestAccepted(u) /\ cthr.pc = "done" /\ cthr.quiet
            /\ cthr.conn.status = "connected") =>
            /\ (PortMissing(uthr[u].details[1]) /\ cthr.conn.driver = "mysql.connector") =>
                   cthr.conn.port = 3306
            /\ (PortMissing(uthr[u].details[1]) /\ cthr.conn.driver = "psycopg2") =>
                   cthr.conn.port = 5432
            /\ ~PortMissing(uthr[u].details[1]) =>
                   cthr.conn.port = ParseInt(uthr[u].details[1].DB_PORT.v)

\* C15: a profile accepted without a port holds 3306 for mysql and 5432 for
\* postgresql/postgres, and a connection opened on it uses that port; a port
\* given in digits is the one held and the one the connection uses.
C15_DefaultPortByBackendKind ==
    /\ [][PortResolvedOnUpdate]_vars
    /\ []PortResolvedOnConnect

\* the values the caller of update_data bound, in order
MappedValues(r) == [i \in 1..Len(r.user_input_columns) |-> r.user_input_columns[i][2]]

\* C14: the response to update_data carries the mapping of the input columns
\* to the values bound to them, when the execution failed as when it
\* succeeded.
C14_EnvelopeCarriesBoundColumns ==
    op = "update_data" =>
        /\ resp.has_columns
        /\ MappedValues(resp) = request[1].params

----------------------------------------------------------------------------
(* Properties of _fix_common_syntax_issues *)

\* index after the run of two or more whitespace characters that follows the
\* word character at i, 0 if there is no such run or the text ends with it
GapEnd(s, i) ==
    LET k == SpaceEnd(s, i + 1)
    IN  IF IsWord(s[i]) /\ k - (i + 1) >= 2 /\ k <= Len(s) THEN k ELSE 0

\* a word character at i, two or more whitespace characters, then ':'
ColonGap(s, i) == GapEnd(s, i) # 0 /\ s[GapEnd(s, i)] = ":"

\* a word character at i, two or more whitespace characters, then a word
WordGap(s, i) == GapEnd(s, i) # 0 /\ IsWord(s[GapEnd(s, i)])

\* a dotted identifier ends at i
EndsDotted(s, i) == \E p \in 1..i : DottedEnd(s, p) = i + 1

\* a word gap with a dotted identifier on both sides
DottedGap(s, i) ==
    /\ WordGap(s, i)
    /\ EndsDotted(s, i)
    /\ DottedEnd(s, GapEnd(s, i)) # 0

ColonGaps(s) == { i \in 1..Len(s) : ColonGap(s, i) }
DottedGaps(s) == { i \in 1..Len(s) : DottedGap(s, i) }
UndottedGaps(s) == { i \in 1..Len(s) : WordGap(s, i) /\ ~DottedGap(s, i) }

\* the word that starts at k
WordAt(s, k) == Slice(s, k, WordEnd(s, k) - 1)

\* index of the first character of the word that ends at i
WordStart(s, i) ==
    CHOOSE p \in 1..i : WordEnd(s, p) = i + 1 /\ (p = 1 \/ ~IsWord(s[p - 1]))

\* the word that ends at i
WordBefore(s, i) == Slice(s, WordStart(s, i), i)

\* a word gap between two identifiers: neither word is the keyword WHERE and
\* the word before the gap is not the name of a placeholder
IdentifierGap(s, i) ==
    /\ WordGap(s, i)
    /\ WordBefore(s, i) # kWHERE
    /\ WordStart(s, i) > 1 => s[WordStart(s, i) - 1] # ":"
    /\ WordAt(s, GapEnd(s, i)) # kWHERE

\* C8: the pass applied to its own output returns that output.
C8_Idempotent == nstage = "refixed" => nout = nprev

\* C9 as claimed: after the pass no identifier is followed by two or more
\* spaces and then a placeholder or another identifier, dotted or not, and
\* 'e.salary  :salary' has become 'e.salary > :salary'.
C9_EveryOperandGapRepaired ==
    nstage = "fixed" =>
        /\ \A i \in 1..Len(nout) : ~ColonGap(nout, i) /\ ~IdentifierGap(nout, i)
        /\ nq = kESalary \o kSp2 \o kPSalary => nout = kESalary \o kOpGt \o kPSalary

\* C9 amended: after the pass no word is followed by two or more whitespace
\* characters and then ':', and 'e.salary  :salary' has become
\* 'e.salary > :salary'; of the gaps between two dotted identifiers at least
\* the first is repaired, so fewer of them are left; the gaps between two
\* words of which one is not dotted are all left in place; a statement with
\* neither kind of repaired gap and without the literal
\* 'WHERE e.salary m.salary' is returned as it is.
C9_ColonAndDottedGapsRepaired ==
    nstage = "fixed" =>
        /\ ColonGaps(nout) = {}
        /\ nq = kESalary \o kSp2 \o kPSalary => nout = kESalary \o kOpGt \o kPSalary
        /\ DottedGaps(nq) # {} =>
               Cardinality(DottedGaps(nout)) < Cardinality(DottedGaps(nq))
        /\ Cardinality(UndottedGaps(nout)) = Cardinality(UndottedGaps(nq))
        /\ (ColonGaps(nq) = {} /\ DottedGaps(nq) = {} /\ ~Contains(nq, kBadWhere)) =>
               nout = nq

\* C9 witness: the pass has repaired a statement with a gap before a
\* placeholder and a gap between two dotted identifiers
C9_Witness ==
    /\ nstage = "fixed"
    /\ ColonGaps(nq) # {}
    /\ DottedGaps(nq) # {}
    /\ ColonGaps(nout) = {}
    /\ DottedGaps(nout) = {}

\* an operand ends at i: a word that is not the keyword WHERE (an identifier
\* or the name of a placeholder)
OperandEndsAt(s, i) ==
    /\ i >= 1
    /\ IsWord(s[i])
    /\ (i = Len(s) \/ ~IsWord(s[i + 1]))
    /\ WordBefore(s, i) # kWHERE

\* an operand starts at k: a placeholder or a word that is not WHERE
OperandStartsAt(s, k) ==
    /\ k <= Len(s)
    /\ \/ s[k] = ":" /\ k < Len(s) /\ IsWord(s[k + 1])
       \/ IsWord(s[k]) /\ WordAt(s, k) # kWHERE

\* index of the last character before p that is not whitespace, 0 if none
PrevNonSpace(s, p) ==
    IF \E i \in 1..(p - 1) : ~IsSpace(s[i])
    THEN CHOOSE i \in 1..(p - 1) :
            ~IsSpace(s[i]) /\ \A j \in (i + 1)..(p - 1) : IsSpace(s[j])
    ELSE 0

\* the operator > stands between two operands somewhere in s
HasOperatorBetweenOperands(s) ==
    \E p \in 1..Len(s) :
        /\ s[p] = ">"
        /\ OperandEndsAt(s, PrevNonSpace(s, p))
        /\ OperandStartsAt(s, SpaceEnd(s, p + 1))

\* two operands of s are separated by whitespace only
MissesOperator(s) ==
    \E i \in 1..(Len(s) - 1) :
        /\ OperandEndsAt(s, i)
        /\ IsSpace(s[i + 1])
        /\ OperandStartsAt(s, SpaceEnd(s, i + 1))

\* C17: a statement that has its operator between operands and no two
\* operands separated by whitespace only is returned by the pass as it is,
\* however the whitespace before its placeholders is laid out.
C17_StatementWithOperatorUnchanged ==
    (nstage = "fixed" /\ HasOperatorBetweenOperands(nq) /\ ~MissesOperator(nq)) =>
        nout = nq

----------------------------------------------------------------------------
(* Properties of the column extraction and the placeholder unification *)

\* C12: for an UPDATE statement extract_column_names returns the left-hand
\* column names of its SET assignments, in order, complete and unmodified,
\* and none of the WHERE clause.
C12_UpdateYieldsSetColumns ==
    (tstage = "extracted" /\ tin.kind = "update") => tout = tin.cols

\* C13: for an INSERT statement extract_column_names returns the column
\* names listed in the parentheses after the table name, in order, stripped.
C13_InsertYieldsListedColumns ==
    (tstage = "extracted" /\ tin.kind = "insert") => tout = tin.cols

\* the reference rewrite: every <name> becomes :name, nothing else changes
RECURSIVE RewriteBracketedFrom(_, _)
RewriteBracketedFrom(s, i) ==
    LET e == WordEnd(s, i + 1)
    IN  IF i > Len(s) THEN <<>>
        ELSE IF s[i] = "<" /\ e > i + 1 /\ e <= Len(s) /\ s[e] = ">"
             THEN kColon \o Slice(s, i + 1, e - 1) \o RewriteBracketedFrom(s, e + 1)
             ELSE <<s[i]>> \o RewriteBracketedFrom(s, i + 1)

RewriteBracketed(s) == RewriteBracketedFrom(s, 1)

\* C18: the unification returns the template with every <name> replaced by
\* :name and every other character, comparison operators included, kept.
C18_UnifiedEqualsBracketRewrite ==
    tstage = "unified" => tout = RewriteBracketed(tin.text)

----------------------------------------------------------------------------
(* Properties of requests served at the same time *)

\* C16: of the use_cases calls that find the cache empty within one epoch
\* (between two resets of the cache), at most one generates a catalog.
C16_OneBuildPerEpoch ==
    \A e \in 0..MaxUpdates : gens[e] <= 1

\* no request is being served, and the dbDetails request that returned last
\* was accepted
AllReturnedAfterUpdate ==
    /\ NoUpdateInProgress
    /\ \E u \in UpdateThreads : LatestAccepted(u)
    /\ \A t \in ListThreads : lthr[t].pc \in {"idle", "done"}

\* the cached catalog was generated from the URL and the backend kind of the
\* request accepted last
CacheFromActiveProfile ==
    \A u \in UpdateThreads : LatestAccepted(u) => MadeForRequest(use_case_cache, u)

\* C19: once an accepted dbDetails request and the use_cases requests served
\* along with it have returned, the cache is empty or holds a catalog
\* generated from the profile now in place.
C19_NoStaleCatalogAfterUpdate ==
    AllReturnedAfterUpdate => (~use_case_cache.set \/ CacheFromActiveProfile)

====
